---- MODULE Spec2Model ----
(***************************************************************************)
(* State-machine model of the instant-message backbone.                    *)
(*                                                                         *)
(*   SeqSpec    the sequence-number process: recovery by load() from the   *)
(*              append segments, the pool of service runtimes serving      *)
(*              next(key), journaling, kill and restart                    *)
(*              (server/seqnum/src/main.rs).                               *)
(*   ConnSpec   the transport clients and the connections they open:       *)
(*              Client::run, ClientTimeout::run, their Drop, and           *)
(*              ClientMultiConnection::new_connection                      *)
(*              (server/common/src/net/client.rs).                         *)
(*   PumpSpec   one connected Client, its two bounded channels and the     *)
(*              stream pumps new_net_streams spawns, with the user of the  *)
(*              channels and the peer on the wire                          *)
(*              (server/common/src/net/client.rs).                         *)
(*   PumpLiveSpec  PumpSpec with the scheduling of the pump tasks.         *)
(*   MultiSpec  the same client with several streams open, their pumps     *)
(*              sharing the two channels.                                  *)
(*   NodeSpec   a node's handlers, the maps and queues they are given, and *)
(*              the handler list of the message node                       *)
(*              (server/message/src/cluster/handler/pure_text.rs,          *)
(*              server/message/src/service/handler/business.rs,            *)
(*              server/scheduler/src/cluster/handler/message.rs,           *)
(*              server/message/src/core/mod.rs).                           *)
(*   SessSpec   the connection handlers of a message node and its          *)
(*              connection map (server/message/src/core/net.rs).           *)
(*   BuildSpec  ClientConfigBuilder: its setters and build                 *)
(*              (server/common/src/net/client.rs).                         *)
(*   DialSpec   the replicas of the scheduler cluster, each making its     *)
(*              dial run (server/scheduler/src/cluster/client.rs).         *)
(***************************************************************************)
EXTENDS Integers, Sequences, FiniteSets, TLC

VARIABLES
    \* ---- sequence-number process -------------------------------------
    phase,            \* "down" | "loading" | "loaded" | "serving" | "load_failed"
    epoch,            \* number of restarts so far
    append_dir,       \* CONFIG.server.append_dir: file name -> bytes of the file
    dir,              \* load(): entries the read_dir iterator has not yielded yet
    map,              \* load(): the local AHashMap key -> seq_num
    seqnum_map,       \* get_seqnum_map(): key -> value of the AtomicU64
    pending,          \* per runtime: records handed to the journal, not yet written
    returned,         \* history: per key, the values next(key) returned in this run
    returned_before,  \* history: per key, the values returned in earlier runs
    journaled_before, \* history: per key, the values in complete records at the last kill
    base,             \* history: per key, the counter when the runtimes were started
    applied,          \* history: per file, the records load() applied in this run
    served,           \* history: the next() requests served so far
    \* ---- transport clients and their connections ----------------------
    clients,          \* Client / ClientTimeout: the fields of the struct
    live,             \* the live connections: id, owning endpoint, remote address
    conn_count,       \* connections opened so far (the id of the latest)
    multi_dropped,    \* the ClientMultiConnection has been dropped
    subs,             \* history: the new_connection calls and what they returned
    \* ---- one client's channels and stream pumps ------------------------
    outq,             \* the outbound channel (outer_sender -> inner_receiver)
    inq,              \* the inbound channel (inner_sender -> outer_receiver)
    sender_alive,     \* the user still holds outer_sender
    receiver_alive,   \* the user still holds outer_receiver
    prod,             \* the user's send: idle, or suspended on a full channel
    pc,               \* per stream: where its pump is
    held,             \* per stream: the message the pump holds in an arm's body
    rd,               \* per stream: how far the pending read_msg future has read
    wire_in,          \* per stream: what the peer wrote and the pump has not read
    stream_ok,        \* per stream: no I/O error on the stream so far
    wire_out,         \* per stream: the messages the pump wrote to the wire
    peer_mid,         \* per stream: the peer wrote a length prefix and not yet the body
    peer_wrote,       \* history: per stream, the frames the peer wrote in full
    taken,            \* history: per stream, the frames the pump began to read
    forwarded,        \* history: per stream, the messages sent into the inbound channel
    dequeued,         \* history: per stream, the messages taken from the outbound channel
    deq_all,          \* history: the messages taken from the outbound channel, in order
    exit_cause,       \* history: per stream, why the pump left its loop
    left_at_exit,     \* history: per stream, the outbound messages queued when it left
    auth,             \* rw_streams: not called, waiting for the reply, returned
    \* ---- a node's handlers and the queues they send on -----------------
    client_map,       \* ClientConnectionMap: per user, the state of its entry
    cluster_map,      \* ClusterConnectionMap: per peer node, the state of its entry
    chan,             \* per queue: the messages sent on it and not yet consumed
    call,             \* the handler call whose result is not yet written back: what
                      \* it was given, the map entries it found, what it sent and
                      \* what it returned
    \* ---- a message node's connection handlers --------------------------
    c_map,            \* ConnectionMap: user -> the connection whose sender it holds
    task,             \* per connection: where Server::handle is
    sess_q,           \* per connection: the channel Server::handle created
    first,            \* history: per connection, the outcome of the first read
    answer,           \* per connection: what process returned for the latest
                      \* message of the loop and what was written back for it
    \* ---- client configuration ------------------------------------------
    builder,          \* ClientConfigBuilder: field -> its value, or None
    built,            \* what build returned for builder, once it was called
    \* ---- scheduler replicas --------------------------------------------
    addresses,        \* CONFIG.cluster.addresses, the same for every replica
    sched             \* per replica (by its cluster address): where its dial
                      \* run is, index, cluster_set, cluster_map, the peers a
                      \* handler task was spawned for, and (history) the
                      \* dials attempted with their outcomes

seqVars == <<phase, epoch, append_dir, dir, map, seqnum_map, pending,
             returned, returned_before, journaled_before, base, applied, served>>

connVars == <<clients, live, conn_count, multi_dropped, subs>>

pumpVars == <<outq, inq, sender_alive, receiver_alive, prod, pc, held, rd, wire_in,
              stream_ok, wire_out, peer_mid, peer_wrote, taken, forwarded, dequeued, deq_all,
              exit_cause, left_at_exit, auth>>

nodeVars == <<client_map, cluster_map, chan, call>>

sessVars == <<c_map, task, sess_q, first, answer>>
cfgVars == <<builder, built>>
dialVars == <<addresses, sched>>

vars == <<seqVars, connVars, pumpVars, nodeVars, sessVars, cfgVars, dialVars>>

\* ------------------------------------------------------------------ bounds

\* The clients issue at most MaxCalls next() requests in all.
MaxCalls == 3
\* A runtime holds at most MaxPending records that are not yet in its segment.
MaxPending == 1

\* Conversation keys the clients ask for (u128 values).
Keys == {1, 2}
\* The service runtimes: the main thread's and one spawned thread's.
Runtimes == {0, 1}
\* Lengths at which a kill may cut the record being written.
TornLens == {0, 20}

\* ------------------------------------------------------------ byte helpers

\* buf = vec![0u8; 24]
RecordLen == 24
\* key(16B) of a record; the value takes the other 8 bytes.
KeyLen == 16

RECURSIVE BigEndian(_, _)
\* n as len big-endian bytes.
BigEndian(n, len) ==
    IF len = 0 THEN <<>> ELSE Append(BigEndian(n \div 256, len - 1), n % 256)

RECURSIVE FromBigEndian(_, _, _, _)
\* The number the big-endian bytes b[i..last] hold, after acc.
FromBigEndian(b, i, last, acc) ==
    IF i > last THEN acc ELSE FromBigEndian(b, i + 1, last, acc * 256 + b[i])

\* The journal's record (key || value_be_u64).
to_bytes(key, value) == BigEndian(key, KeyLen) \o BigEndian(value, RecordLen - KeyLen)

\* util::from_bytes(&buf[..]) -> (key, seq_num)
from_bytes(b) ==
    <<FromBigEndian(b, 1, KeyLen, 0), FromBigEndian(b, KeyLen + 1, RecordLen, 0)>>

\* ------------------------------------------------------------- file names

SeqnumPrefix == <<"s", "e", "q", "n", "u", "m", "-">>
\* A file of the directory that is no segment: its name lacks the dash.
OtherName == <<"s", "e", "q", "n", "u", "m", ".", "b", "a", "k">>
\* What OtherName holds: a record whose value no next() ever returned.
OtherBytes == to_bytes(1, 200)

Digit(n) == CASE n = 0 -> "0" [] n = 1 -> "1" [] n = 2 -> "2" [] n = 3 -> "3"
              [] n = 4 -> "4" [] OTHER -> "9"

\* The segment runtime t appends to in run e.
SegmentName(e, t) == SeqnumPrefix \o <<Digit(e), Digit(t)>>

\* file_name_str.starts_with("seqnum-")
starts_with(name, prefix) ==
    /\ Len(name) >= Len(prefix)
    /\ SubSeq(name, 1, Len(prefix)) = prefix

\* -------------------------------------------------------------- maps

EmptyMap == [k \in {} |-> 0]
Put(m, k, v) == [x \in DOMAIN m \cup {k} |-> IF x = k THEN v ELSE m[x]]
Get(m, k) == IF k \in DOMAIN m THEN m[k] ELSE 0

\* The complete records of a file, in file order.
RecordsOf(bytes) ==
    [i \in 1..(Len(bytes) \div RecordLen) |->
        from_bytes(SubSeq(bytes, (i - 1) * RecordLen + 1, i * RecordLen))]

\* The files of directory d that load() opens.
SeqnumFiles(d) == {n \in DOMAIN d : starts_with(n, SeqnumPrefix)}

\* The values the complete records of the seqnum-* files of d hold for key k.
JournaledValues(d, k) ==
    UNION {LET recs == RecordsOf(d[n])
           IN  {recs[i][2] : i \in {j \in DOMAIN recs : recs[j][1] = k}} :
           n \in SeqnumFiles(d)}

\* The keys with a complete record in some seqnum-* file of d.
JournaledKeys(d) ==
    UNION {LET recs == RecordsOf(d[n])
           IN  {recs[i][1] : i \in DOMAIN recs} : n \in SeqnumFiles(d)}

SetMax(S) == CHOOSE x \in S : \A y \in S : y <= x

\* ------------------------------------------------- transport: connections

\* The two single-connection clients; their run() is the same code.
ClientIds == {"Client", "ClientTimeout"}
\* Remote addresses a client may dial.
Addrs == {"A", "B"}
\* config.remote_address of the two single-connection clients.
RemoteOf(c) == "A"
\* The endpoint of the ClientMultiConnection, as owner of a connection.
MultiEndpoint == "ClientMultiConnection"

\* run() is called at most MaxRuns times on a client.
MaxRuns == 2
\* new_connection() is called at most MaxSubConnections times.
MaxSubConnections == 2
\* opened_bi_streams_number is at most MaxStreams.
MaxStreams == 1

\* Client::new(config) / ClientTimeout::new(config, timeout)
NewClient ==
    [config |-> TRUE, endpoint |-> FALSE, connection |-> 0, channels |-> FALSE,
     runs |-> 0, result |-> "none", dropped |-> FALSE]

ConnInit ==
    /\ clients = [c \in ClientIds |-> NewClient]
    /\ live = {}
    /\ conn_count = 0
    /\ multi_dropped = FALSE
    /\ subs = <<>>

\* The clients untouched: the state of a system that runs none of them.
ConnIdle == ConnInit

LiveIds == {l.id : l \in live}

\* Client::run / ClientTimeout::run. self.config.take().unwrap() panics when
\* the config was taken by an earlier call; else the certificate, the endpoint
\* or the handshake may fail (Err, nothing stored), or the new connection, its
\* endpoint and the two channels are stored.
ClientRun(c) ==
    /\ ~clients[c].dropped
    /\ clients[c].result # "panic"
    /\ clients[c].runs < MaxRuns
    /\ IF ~clients[c].config
       THEN /\ clients' = [clients EXCEPT ![c].runs = @ + 1, ![c].result = "panic"]
            /\ UNCHANGED <<live, conn_count>>
       ELSE \/ /\ clients' = [clients EXCEPT ![c].runs = @ + 1, ![c].result = "err",
                                             ![c].config = FALSE]
               /\ UNCHANGED <<live, conn_count>>
            \/ /\ conn_count' = conn_count + 1
               /\ live' = live \cup {[id |-> conn_count + 1, owner |-> c,
                                      remote |-> RemoteOf(c)]}
               /\ clients' = [clients EXCEPT ![c].runs = @ + 1, ![c].result = "ok",
                                             ![c].config = FALSE, ![c].endpoint = TRUE,
                                             ![c].connection = conn_count + 1,
                                             ![c].channels = TRUE]
    /\ UNCHANGED <<multi_dropped, subs>>
    /\ UNCHANGED <<seqVars, pumpVars, nodeVars, sessVars, cfgVars, dialVars>>

\* Drop for Client / ClientTimeout: endpoint.close() when an endpoint is held,
\* which closes every connection of that endpoint.
ClientDrop(c) ==
    /\ ~clients[c].dropped
    /\ clients' = [clients EXCEPT ![c].dropped = TRUE]
    /\ live' = IF clients[c].endpoint THEN {l \in live : l.owner # c} ELSE live
    /\ UNCHANGED <<conn_count, multi_dropped, subs>>
    /\ UNCHANGED <<seqVars, pumpVars, nodeVars, sessVars, cfgVars, dialVars>>

\* ClientMultiConnection::new_connection(remote_address = a,
\* opened_bi_streams_number = n): endpoint.connect is called whatever
\* connections exist; then n streams are opened, each with its pump. opened is
\* the number of open_bi() calls that succeeded (n when none failed). The
\* connection handle is local: the connection lives on in the streams of the
\* pumps, and is closed at once when there is none.
NewConnection(a, n) ==
    /\ ~multi_dropped
    /\ Len(subs) < MaxSubConnections
    /\ \/ /\ subs' = Append(subs, [remote |-> a, result |-> "err", conn |-> 0,
                                   pumps |-> 0,
                                   had_live |-> \E l \in live :
                                                   l.owner = MultiEndpoint /\ l.remote = a])
          /\ UNCHANGED <<live, conn_count>>
       \/ \E opened \in 0..n :
          /\ conn_count' = conn_count + 1
          /\ live' = IF opened > 0
                     THEN live \cup {[id |-> conn_count + 1, owner |-> MultiEndpoint,
                                      remote |-> a]}
                     ELSE live
          /\ subs' = Append(subs, [remote |-> a,
                                   result |-> IF opened = n THEN "ok" ELSE "err",
                                   conn |-> conn_count + 1, pumps |-> opened,
                                   had_live |-> \E l \in live :
                                                   l.owner = MultiEndpoint /\ l.remote = a])
    /\ UNCHANGED <<clients, multi_dropped>>
    /\ UNCHANGED <<seqVars, pumpVars, nodeVars, sessVars, cfgVars, dialVars>>

\* Drop for ClientMultiConnection: endpoint.close().
MultiDrop ==
    /\ ~multi_dropped
    /\ multi_dropped' = TRUE
    /\ live' = {l \in live : l.owner # MultiEndpoint}
    /\ UNCHANGED <<clients, conn_count, subs>>
    /\ UNCHANGED <<seqVars, pumpVars, nodeVars, sessVars, cfgVars, dialVars>>

\* The peer, or the idle timeout, closes a connection.
ConnectionLost(id) ==
    /\ id \in LiveIds
    /\ live' = {l \in live : l.id # id}
    /\ UNCHANGED <<clients, conn_count, multi_dropped, subs>>
    /\ UNCHANGED <<seqVars, pumpVars, nodeVars, sessVars, cfgVars, dialVars>>

ConnNext ==
    \/ \E c \in ClientIds : ClientRun(c)
    \/ \E c \in ClientIds : ClientDrop(c)
    \/ \E a \in Addrs, n \in 0..MaxStreams : NewConnection(a, n)
    \/ MultiDrop
    \/ \E id \in 1..(2 * MaxRuns + MaxSubConnections) : ConnectionLost(id)

\* ------------------------------------------------ transport: stream pumps

\* max_sender_side_channel_size: the depth of the outbound channel.
SendQueueDepth == 2
\* max_receiver_side_channel_size: the depth of the inbound channel.
RecvQueueDepth == 1
\* The user sends at most MaxMsgs messages (numbered 1, 2, ..).
MaxMsgs == 3
\* The peer writes at most MaxFrames frames (numbered 1, 2, ..).
MaxFrames == 2
\* The streams new_net_streams can open on the connection, and the one a
\* client with a single stream opens.
Streams == {1, 2}
OneStream == {1}

\* What a read_msg that starts in the middle of a frame decodes: no message a
\* peer wrote.
Corrupt == -1

\* async_channel::bounded(max_receiver_side_channel_size): the two sizes
\* taken for one another.
OutboundCapacitySwapped == RecvQueueDepth

\* async_channel::bounded(max_sender_side_channel_size)
OutboundCapacity == SendQueueDepth

\* tokio::sync::mpsc::channel(max_receiver_side_channel_size)
InboundCapacity == RecvQueueDepth

\* The state after Client::run: both channels exist and are empty, no stream
\* is open yet, the user holds the outer ends.
PumpInit ==
    /\ outq = <<>>
    /\ inq = <<>>
    /\ sender_alive = TRUE
    /\ receiver_alive = TRUE
    /\ prod = [state |-> "idle", msg |-> 0, issued |-> 0, deq_seen |-> 0, resumed |-> 0]
    /\ pc = [s \in Streams |-> "none"]
    /\ held = [s \in Streams |-> 0]
    /\ rd = [s \in Streams |-> "idle"]
    /\ wire_in = [s \in Streams |-> <<>>]
    /\ stream_ok = [s \in Streams |-> TRUE]
    /\ wire_out = [s \in Streams |-> <<>>]
    /\ peer_mid = [s \in Streams |-> FALSE]
    /\ peer_wrote = [s \in Streams |-> <<>>]
    /\ taken = [s \in Streams |-> <<>>]
    /\ forwarded = [s \in Streams |-> <<>>]
    /\ dequeued = [s \in Streams |-> <<>>]
    /\ deq_all = <<>>
    /\ exit_cause = [s \in Streams |-> "none"]
    /\ left_at_exit = [s \in Streams |-> 0]
    /\ auth = "idle"

\* The state of a system in which no client was connected.
PumpIdle == PumpInit

PumpOnly == UNCHANGED <<seqVars, connVars, nodeVars, sessVars, cfgVars, dialVars>>

\* ---- the user of the channels: it has the outer ends from
\* rw_streams_no_token, or from rw_streams once that has returned them

\* outer_sender.send(msg).await: the message is queued when the channel has
\* room, else the send is suspended. (The channel is never closed under the
\* sender: the Client keeps a receiver in inner_streams.)
Send ==
    /\ PumpOnly
    /\ sender_alive
    /\ auth # "waiting"
    /\ prod.state = "idle"
    /\ prod.issued < MaxMsgs
    /\ LET m == prod.issued + 1
       IN  IF Len(outq) < OutboundCapacity
           THEN /\ outq' = Append(outq, m)
                /\ prod' = [prod EXCEPT !.issued = m]
           ELSE /\ prod' = [prod EXCEPT !.state = "suspended", !.msg = m, !.issued = m,
                                         !.deq_seen = Len(deq_all)]
                /\ UNCHANGED outq
    /\ UNCHANGED <<inq, sender_alive, receiver_alive, pc, held, rd, wire_in, stream_ok,
                   wire_out, peer_mid, peer_wrote, taken, forwarded, dequeued, deq_all,
                   exit_cause, left_at_exit, auth>>

\* The suspended send is woken: the channel has room again.
SendResume ==
    /\ PumpOnly
    /\ prod.state = "suspended"
    /\ Len(outq) < OutboundCapacity
    /\ outq' = Append(outq, prod.msg)
    /\ prod' = [prod EXCEPT !.state = "idle", !.msg = 0, !.resumed = @ + 1]
    /\ UNCHANGED <<inq, sender_alive, receiver_alive, pc, held, rd, wire_in, stream_ok,
                   wire_out, peer_mid, peer_wrote, taken, forwarded, dequeued, deq_all,
                   exit_cause, left_at_exit, auth>>

\* outer_receiver.recv().await
Recv ==
    /\ PumpOnly
    /\ receiver_alive
    /\ auth # "waiting"
    /\ inq # <<>>
    /\ inq' = Tail(inq)
    /\ UNCHANGED <<outq, sender_alive, receiver_alive, prod, pc, held, rd, wire_in,
                   stream_ok, wire_out, peer_mid, peer_wrote, taken, forwarded, dequeued,
                   deq_all, exit_cause, left_at_exit, auth>>

\* The user drops outer_sender, the only sender of the outbound channel.
DropSender ==
    /\ PumpOnly
    /\ sender_alive
    /\ auth # "waiting"
    /\ prod.state = "idle"
    /\ sender_alive' = FALSE
    /\ UNCHANGED <<outq, inq, receiver_alive, prod, pc, held, rd, wire_in, stream_ok,
                   wire_out, peer_mid, peer_wrote, taken, forwarded, dequeued, deq_all,
                   exit_cause, left_at_exit, auth>>

\* The user drops outer_receiver: the inbound channel is closed and what it
\* held is dropped with it.
DropReceiver ==
    /\ PumpOnly
    /\ receiver_alive
    /\ auth # "waiting"
    /\ receiver_alive' = FALSE
    /\ inq' = <<>>
    /\ UNCHANGED <<outq, sender_alive, prod, pc, held, rd, wire_in, stream_ok, wire_out,
                   peer_mid, peer_wrote, taken, forwarded, dequeued, deq_all, exit_cause,
                   left_at_exit, auth>>

\* ---- the peer on the wire

\* The frames the peer began to write, over all streams.
FramesBegun == UNION {{peer_wrote[s][i] : i \in 1..Len(peer_wrote[s])} : s \in Streams}

LenChunk(f) == [kind |-> "len", frame |-> f]
BodyChunk(f) == [kind |-> "body", frame |-> f]

\* The peer writes the length prefix of its next frame to stream s.
PeerWriteLen(s) ==
    /\ PumpOnly
    /\ pc[s] # "none"
    /\ stream_ok[s]
    /\ ~peer_mid[s]
    /\ Cardinality(FramesBegun) < MaxFrames
    /\ LET f == Cardinality(FramesBegun) + 1
       IN  /\ wire_in' = [wire_in EXCEPT ![s] = Append(@, LenChunk(f))]
           /\ peer_wrote' = [peer_wrote EXCEPT ![s] = Append(@, f)]
    /\ peer_mid' = [peer_mid EXCEPT ![s] = TRUE]
    /\ UNCHANGED <<outq, inq, sender_alive, receiver_alive, prod, pc, held, rd,
                   stream_ok, wire_out, taken, forwarded, dequeued, deq_all, exit_cause,
                   left_at_exit, auth>>

\* The peer writes the body of the frame it began.
PeerWriteBody(s) ==
    /\ PumpOnly
    /\ stream_ok[s]
    /\ peer_mid[s]
    /\ wire_in' = [wire_in EXCEPT ![s] = Append(@, BodyChunk(peer_wrote[s][Len(peer_wrote[s])]))]
    /\ peer_mid' = [peer_mid EXCEPT ![s] = FALSE]
    /\ UNCHANGED <<outq, inq, sender_alive, receiver_alive, prod, pc, held, rd,
                   stream_ok, wire_out, peer_wrote, taken, forwarded, dequeued, deq_all,
                   exit_cause, left_at_exit, auth>>

\* The stream fails: the peer reset or closed it, or the connection was lost.
\* From now on every read and write on it returns Err.
StreamBreak(s) ==
    /\ PumpOnly
    /\ pc[s] \notin {"none", "done"}
    /\ stream_ok[s]
    /\ stream_ok' = [stream_ok EXCEPT ![s] = FALSE]
    /\ UNCHANGED <<outq, inq, sender_alive, receiver_alive, prod, pc, held, rd, wire_in,
                   wire_out, peer_mid, peer_wrote, taken, forwarded, dequeued, deq_all,
                   exit_cause, left_at_exit, auth>>

\* ---- the pump of stream s

\* new_net_streams: open_bi, which yields the next stream of the connection,
\* and the spawn of the pump task.
NewNetStreams(s) ==
    /\ PumpOnly
    /\ pc[s] = "none"
    /\ \A t \in Streams : t < s => pc[t] # "none"
    /\ pc' = [pc EXCEPT ![s] = "select"]
    /\ UNCHANGED <<outq, inq, sender_alive, receiver_alive, prod, held, rd, wire_in,
                   stream_ok, wire_out, peer_mid, peer_wrote, taken, forwarded, dequeued,
                   deq_all, exit_cause, left_at_exit, auth>>

\* The holders of a sender of the inbound channel: the Client, which keeps
\* inner_sender in inner_streams, and each running pump, which has a clone.
InboundSenders == {0} \cup {s \in Streams : pc[s] \in {"select", "forward", "write"}}

\* The Auth message: the first message on the outbound channel.
AuthMsg == 1

\* rw_streams, up to the wait for the reply: new_net_streams, the outer ends
\* taken from outer_streams, the Auth message sent.
RwStreams(s) ==
    /\ PumpOnly
    /\ auth = "idle"
    /\ \A t \in Streams : pc[t] = "none"
    /\ prod.issued = 0
    /\ sender_alive /\ receiver_alive
    /\ pc' = [pc EXCEPT ![s] = "select"]
    /\ outq' = Append(outq, AuthMsg)
    /\ prod' = [prod EXCEPT !.issued = AuthMsg]
    /\ auth' = "waiting"
    /\ UNCHANGED <<inq, sender_alive, receiver_alive, held, rd, wire_in, stream_ok,
                   wire_out, peer_mid, peer_wrote, taken, forwarded, dequeued, deq_all,
                   exit_cause, left_at_exit>>

\* rw_streams: streams.1.recv().await returns. Some(msg): Ok(streams). None,
\* which recv returns when the channel is empty and no sender is left:
\* Err("auth failed"), and the outer ends are dropped with the call.
RwStreamsReply ==
    /\ PumpOnly
    /\ auth = "waiting"
    /\ IF inq # <<>>
       THEN /\ inq' = Tail(inq)
            /\ auth' = "ok"
            /\ UNCHANGED <<sender_alive, receiver_alive>>
       ELSE /\ InboundSenders = {}
            /\ auth' = "failed"
            /\ sender_alive' = FALSE
            /\ receiver_alive' = FALSE
            /\ UNCHANGED inq
    /\ UNCHANGED <<outq, prod, pc, held, rd, wire_in, stream_ok, wire_out, peer_mid,
                   peer_wrote, taken, forwarded, dequeued, deq_all, exit_cause,
                   left_at_exit>>

\* `break`: the pump leaves its loop at once, whatever the outbound channel
\* still holds; the task ends and its stream halves are dropped.
Break(s, cause) ==
    /\ pc' = [pc EXCEPT ![s] = "done"]
    /\ held' = [held EXCEPT ![s] = 0]
    /\ rd' = [rd EXCEPT ![s] = "idle"]
    /\ exit_cause' = [exit_cause EXCEPT ![s] = cause]
    /\ left_at_exit' = [left_at_exit EXCEPT ![s] = Len(outq)]

\* The read_msg future is polled with only the length prefix of a frame on
\* the wire: it reads the prefix into `buffer` and stays pending on the body.
PumpReadLen(s) ==
    /\ PumpOnly
    /\ pc[s] = "select"
    /\ stream_ok[s]
    /\ rd[s] = "idle"
    /\ Len(wire_in[s]) = 1
    /\ wire_in[s][1].kind = "len"
    /\ rd' = [rd EXCEPT ![s] = "len"]
    /\ wire_in' = [wire_in EXCEPT ![s] = Tail(@)]
    /\ taken' = [taken EXCEPT ![s] = Append(@, wire_in[s][1].frame)]
    /\ UNCHANGED <<outq, inq, sender_alive, receiver_alive, prod, pc, held, stream_ok,
                   wire_out, peer_mid, peer_wrote, forwarded, dequeued, deq_all,
                   exit_cause, left_at_exit, auth>>

\* First select arm: read_msg completes with a frame, read in one poll or
\* finished by the future that already holds the length prefix.
PumpReadMsg(s) ==
    /\ PumpOnly
    /\ pc[s] = "select"
    /\ stream_ok[s]
    /\ \/ /\ rd[s] = "idle"
          /\ Len(wire_in[s]) >= 2
          /\ wire_in[s][1].kind = "len"
          /\ held' = [held EXCEPT ![s] = wire_in[s][1].frame]
          /\ taken' = [taken EXCEPT ![s] = Append(@, wire_in[s][1].frame)]
          /\ wire_in' = [wire_in EXCEPT ![s] = Tail(Tail(@))]
       \/ /\ rd[s] = "len"
          /\ wire_in[s] # <<>>
          /\ held' = [held EXCEPT ![s] = wire_in[s][1].frame]
          /\ wire_in' = [wire_in EXCEPT ![s] = Tail(@)]
          /\ UNCHANGED taken
    /\ rd' = [rd EXCEPT ![s] = "idle"]
    /\ pc' = [pc EXCEPT ![s] = "forward"]
    /\ UNCHANGED <<outq, inq, sender_alive, receiver_alive, prod, stream_ok, wire_out,
                   peer_mid, peer_wrote, forwarded, dequeued, deq_all, exit_cause,
                   left_at_exit, auth>>

\* First select arm, a fresh read_msg that starts at the body of a frame
\* whose length prefix an earlier, dropped read_msg consumed: it takes body
\* bytes for a length prefix, and returns Err or a message that no peer wrote.
PumpReadDesync(s) ==
    /\ PumpOnly
    /\ pc[s] = "select"
    /\ stream_ok[s]
    /\ rd[s] = "idle"
    /\ wire_in[s] # <<>>
    /\ wire_in[s][1].kind = "body"
    /\ wire_in' = [wire_in EXCEPT ![s] = Tail(@)]
    /\ \/ /\ Break(s, "frame")
       \/ /\ held' = [held EXCEPT ![s] = Corrupt]
          /\ pc' = [pc EXCEPT ![s] = "forward"]
          /\ UNCHANGED <<rd, exit_cause, left_at_exit>>
    /\ UNCHANGED <<outq, inq, sender_alive, receiver_alive, prod, stream_ok, wire_out,
                   peer_mid, peer_wrote, taken, forwarded, dequeued, deq_all, auth>>

\* First select arm: read_msg returns Err (read error or peer close): break.
PumpReadErr(s) ==
    /\ PumpOnly
    /\ pc[s] = "select"
    /\ ~stream_ok[s]
    /\ Break(s, "io")
    /\ UNCHANGED <<outq, inq, sender_alive, receiver_alive, prod, wire_in, stream_ok,
                   wire_out, peer_mid, peer_wrote, taken, forwarded, dequeued, deq_all,
                   auth>>

\* Body of the first arm: inner_streams.0.send(msg).await. The send waits
\* while the inbound channel is full; Err (the receiver is gone): break.
PumpForward(s) ==
    /\ PumpOnly
    /\ pc[s] = "forward"
    /\ IF ~receiver_alive
       THEN /\ Break(s, "queue")
            /\ UNCHANGED <<inq, forwarded>>
       ELSE /\ Len(inq) < InboundCapacity
            /\ inq' = Append(inq, held[s])
            /\ forwarded' = [forwarded EXCEPT ![s] = Append(@, held[s])]
            /\ pc' = [pc EXCEPT ![s] = "select"]
            /\ held' = [held EXCEPT ![s] = 0]
            /\ UNCHANGED <<rd, exit_cause, left_at_exit>>
    /\ UNCHANGED <<outq, sender_alive, receiver_alive, prod, wire_in, stream_ok,
                   wire_out, peer_mid, peer_wrote, taken, dequeued, deq_all, auth>>

\* A recv that leaves the message in the channel for the other receivers.
recv_shared(q) == q

\* What inner_streams.1.recv() leaves in the channel: the message goes to the
\* one receiver that takes it.
recv_rest(q) == Tail(q)

\* Second select arm: inner_streams.1.recv() yields a message. select! drops
\* the read_msg future of this iteration with whatever it had read.
PumpRecv(s) ==
    /\ PumpOnly
    /\ pc[s] = "select"
    /\ outq # <<>>
    /\ outq' = recv_rest(outq)
    /\ held' = [held EXCEPT ![s] = Head(outq)]
    /\ pc' = [pc EXCEPT ![s] = "write"]
    /\ rd' = [rd EXCEPT ![s] = "idle"]
    /\ dequeued' = [dequeued EXCEPT ![s] = Append(@, Head(outq))]
    /\ deq_all' = Append(deq_all, Head(outq))
    /\ UNCHANGED <<inq, sender_alive, receiver_alive, prod, wire_in, stream_ok, wire_out,
                   peer_mid, peer_wrote, taken, forwarded, exit_cause, left_at_exit,
                   auth>>

\* Second select arm: recv() returns Err, the outbound channel is closed
\* (every sender dropped) and empty: break.
PumpRecvClosed(s) ==
    /\ PumpOnly
    /\ pc[s] = "select"
    /\ outq = <<>>
    /\ ~sender_alive
    /\ Break(s, "queue")
    /\ UNCHANGED <<outq, inq, sender_alive, receiver_alive, prod, wire_in, stream_ok,
                   wire_out, peer_mid, peer_wrote, taken, forwarded, dequeued, deq_all,
                   auth>>

\* Body of the second arm: write_msg(&mut io_streams.0).await; Err: break.
PumpWrite(s) ==
    /\ PumpOnly
    /\ pc[s] = "write"
    /\ IF stream_ok[s]
       THEN /\ wire_out' = [wire_out EXCEPT ![s] = Append(@, held[s])]
            /\ pc' = [pc EXCEPT ![s] = "select"]
            /\ held' = [held EXCEPT ![s] = 0]
            /\ UNCHANGED <<rd, exit_cause, left_at_exit>>
       ELSE /\ Break(s, "io")
            /\ UNCHANGED wire_out
    /\ UNCHANGED <<outq, inq, sender_alive, receiver_alive, prod, wire_in, stream_ok,
                   peer_mid, peer_wrote, taken, forwarded, dequeued, deq_all, auth>>

PumpNext ==
    \/ Send
    \/ SendResume
    \/ Recv
    \/ DropSender
    \/ DropReceiver
    \/ \E s \in OneStream : PeerWriteLen(s)
    \/ \E s \in OneStream : PeerWriteBody(s)
    \/ \E s \in OneStream : StreamBreak(s)
    \/ \E s \in OneStream : NewNetStreams(s)
    \/ \E s \in OneStream : RwStreams(s)
    \/ RwStreamsReply
    \/ \E s \in OneStream : PumpReadLen(s)
    \/ \E s \in OneStream : PumpReadMsg(s)
    \/ \E s \in OneStream : PumpReadDesync(s)
    \/ \E s \in OneStream : PumpReadErr(s)
    \/ \E s \in OneStream : PumpForward(s)
    \/ \E s \in OneStream : PumpRecv(s)
    \/ \E s \in OneStream : PumpRecvClosed(s)
    \/ \E s \in OneStream : PumpWrite(s)

\* A client on which new_net_streams is called for each stream, with a user
\* that keeps both ends and a peer that keeps the streams open.
MultiNext ==
    \/ Send
    \/ SendResume
    \/ Recv
    \/ \E s \in Streams : PeerWriteLen(s)
    \/ \E s \in Streams : PeerWriteBody(s)
    \/ \E s \in Streams : NewNetStreams(s)
    \/ \E s \in Streams : PumpReadLen(s)
    \/ \E s \in Streams : PumpReadMsg(s)
    \/ \E s \in Streams : PumpReadDesync(s)
    \/ \E s \in Streams : PumpForward(s)
    \/ \E s \in Streams : PumpRecv(s)
    \/ \E s \in Streams : PumpWrite(s)

\* ------------------------------------------------- sequence-number process

\* The sequence-number process alone: the rest of the system stands still.
SeqOnly == UNCHANGED <<connVars, pumpVars, nodeVars, sessVars, cfgVars, dialVars>>

SeqInit ==
    /\ phase = "down"
    /\ epoch = 0
    /\ append_dir = [n \in {OtherName} |-> OtherBytes]
    /\ dir = {}
    /\ map = EmptyMap
    /\ seqnum_map = EmptyMap
    /\ pending = [t \in Runtimes |-> <<>>]
    /\ returned = [k \in Keys |-> <<>>]
    /\ returned_before = [k \in Keys |-> {}]
    /\ journaled_before = [k \in Keys |-> {}]
    /\ base = [k \in Keys |-> 0]
    /\ applied = EmptyMap
    /\ served = 0

\* main() up to load(): the process starts and load() reads the directory
\* (std::fs::read_dir); the shared map of a new process is empty.
Start ==
    /\ SeqOnly
    /\ phase = "down"
    /\ phase' = "loading"
    /\ dir' = DOMAIN append_dir
    /\ map' = EmptyMap
    /\ applied' = EmptyMap
    /\ UNCHANGED <<served, epoch, append_dir, seqnum_map, pending, returned, returned_before,
                   journaled_before, base>>

\* map.insert(key, seq_num): the last record read wins.
ApplyRecordLastWins(m, key, value) == Put(m, key, value + 1)

\* The entry of map after one record (key, seq_num) of a segment:
\* seq_num += 1; entry(key).and_modify(keep the larger).or_insert(seq_num).
ApplyRecord(m, key, value) ==
    LET seq_num == value + 1
    IN  IF key \in DOMAIN m
        THEN IF m[key] < seq_num THEN Put(m, key, seq_num) ELSE m
        ELSE Put(m, key, seq_num)

\* The inner loop over one segment, from read position pos with n records
\* applied so far: read_exact of 24 bytes; on an error (fewer than 24 bytes
\* are left) the loop breaks, else the record is applied to m.
RECURSIVE ReadRecords(_, _, _, _)
ReadRecords(m, bytes, pos, n) ==
    IF Len(bytes) - pos < RecordLen
    THEN [map |-> m, applied |-> n]
    ELSE LET rec == from_bytes(SubSeq(bytes, pos + 1, pos + RecordLen))
         IN  ReadRecords(ApplyRecord(m, rec[1], rec[2]), bytes, pos + RecordLen, n + 1)

\* if res.is_err() { return Err } in place of the break.
OnReadErrorReturn == "load_failed"

\* if res.is_err() { error!(..); break; }: load() goes on with the next entry.
OnReadError == "loading"

\* One turn of while let Some(entry) = dir.next(): the iterator yields some
\* entry not yet seen; a seqnum-* file is opened and read to the failing
\* read_exact, any other entry is skipped.
LoadNextEntry ==
    /\ SeqOnly
    /\ phase = "loading"
    /\ \E name \in dir :
        /\ dir' = dir \ {name}
        /\ IF starts_with(name, SeqnumPrefix)
           THEN LET read == ReadRecords(map, append_dir[name], 0, 0)
                IN  /\ map' = read.map
                    /\ applied' = Put(applied, name, read.applied)
                    /\ phase' = OnReadError
           ELSE UNCHANGED <<phase, map, applied>>
    /\ UNCHANGED <<served, epoch, append_dir, seqnum_map, pending, returned,
                   returned_before, journaled_before, base>>

\* The directory cannot be read (read_dir fails), or in some turn of the loop
\* entry? or the open of a segment fails: load() returns the error before it
\* touches the shared map, its local map is dropped, and main's unwrap ends
\* the process.
LoadFail ==
    /\ SeqOnly
    /\ phase = "loading"
    /\ dir # {}
    /\ phase' = "load_failed"
    /\ dir' = {}
    /\ map' = EmptyMap
    /\ applied' = EmptyMap
    /\ UNCHANGED <<served, epoch, append_dir, seqnum_map, pending, returned,
                   returned_before, journaled_before, base>>

\* The final loop left out: nothing reaches the shared map.
PublishNothing(shared, local) == shared

\* What load() leaves in the shared map: every entry of the local map inserted.
Publish(shared, local) ==
    [k \in DOMAIN shared \cup DOMAIN local |->
        IF k \in DOMAIN local THEN local[k] ELSE shared[k]]

\* The directory is exhausted: for (key, seqnum) in map { seqnum_map.insert }.
LoadPublish ==
    /\ SeqOnly
    /\ phase = "loading"
    /\ dir = {}
    /\ seqnum_map' = Publish(seqnum_map, map)
    /\ phase' = "loaded"
    /\ map' = EmptyMap
    /\ UNCHANGED <<served, epoch, append_dir, dir, pending, returned, returned_before,
                   journaled_before, base, applied>>

\* The runtimes started without waiting for the result of load().
LoadedOrNot(p) == p \in {"loading", "loaded"}

\* load().unwrap() has returned: load() ran to its Ok(()).
Loaded(p) == p = "loaded"

\* main() after load(): the runtimes are started, all on the one shared map.
StartService ==
    /\ SeqOnly
    /\ Loaded(phase)
    /\ phase' = "serving"
    /\ base' = [k \in Keys |-> Get(seqnum_map, k)]
    /\ UNCHANGED <<served, epoch, append_dir, dir, map, seqnum_map, pending, returned,
                   returned_before, journaled_before, applied>>

\* The counter read and never stored back: the update is lost.
fetch_add_lost(counter) == counter

\* The value of the atomic counter after fetch_add(1).
fetch_add(counter) == counter + 1

\* What next() returns for the value fetch_add(1) handed back: old + 1.
NextValue(old) == old + 1

\* next(k) served by runtime t: the counter of k (0 for a key never seen) is
\* advanced atomically, the new value is returned and handed to the journal.
NextSeq(t, k) ==
    /\ SeqOnly
    /\ phase = "serving"
    /\ served < MaxCalls
    /\ Len(pending[t]) < MaxPending
    /\ LET old == Get(seqnum_map, k)
           v == NextValue(old)
       IN  /\ seqnum_map' = Put(seqnum_map, k, fetch_add(old))
           /\ returned' = [returned EXCEPT ![k] = Append(@, v)]
           /\ pending' = [pending EXCEPT ![t] = Append(@, <<k, v>>)]
    /\ served' = served + 1
    /\ UNCHANGED <<phase, epoch, append_dir, dir, map, returned_before,
                   journaled_before, base, applied>>

\* The bytes of file n of directory d, empty when the file does not exist.
Content(d, n) == IF n \in DOMAIN d THEN d[n] ELSE <<>>

\* Runtime t appends its oldest pending record to its active segment.
Journal(t) ==
    /\ SeqOnly
    /\ phase = "serving"
    /\ pending[t] # <<>>
    /\ LET rec == Head(pending[t])
           seg == SegmentName(epoch, t)
       IN  append_dir' = Put(append_dir, seg,
                             Content(append_dir, seg) \o to_bytes(rec[1], rec[2]))
    /\ pending' = [pending EXCEPT ![t] = Tail(@)]
    /\ UNCHANGED <<served, phase, epoch, dir, map, seqnum_map, returned, returned_before,
                   journaled_before, base, applied>>

\* The directory after a kill: of a record a runtime was writing, the first
\* cut[t] bytes are at the end of its segment.
Torn(cut) ==
    LET segs == {SegmentName(epoch, t) : t \in {u \in Runtimes : cut[u] > 0}}
        OwnerOf(seg) == CHOOSE t \in Runtimes : SegmentName(epoch, t) = seg
    IN  [n \in DOMAIN append_dir \cup segs |->
            IF n \in segs
            THEN Content(append_dir, n)
                   \o SubSeq(to_bytes(Head(pending[OwnerOf(n)])[1],
                                      Head(pending[OwnerOf(n)])[2]), 1, cut[OwnerOf(n)])
            ELSE append_dir[n]]

\* The process is killed after it served a request: memory is lost, the
\* segments stay as written. (A kill during load(), or of a process that served
\* nothing, changes no file and repeats the same load.)
Kill ==
    /\ SeqOnly
    /\ phase = "serving"
    /\ \E k \in Keys : returned[k] # <<>>
    /\ \E cut \in [Runtimes -> TornLens] :
        /\ \A t \in Runtimes : pending[t] = <<>> => cut[t] = 0
        /\ append_dir' = Torn(cut)
    /\ phase' = "down"
    /\ epoch' = epoch + 1
    /\ dir' = {}
    /\ map' = EmptyMap
    /\ seqnum_map' = EmptyMap
    /\ pending' = [t \in Runtimes |-> <<>>]
    /\ returned' = [k \in Keys |-> <<>>]
    /\ returned_before' =
         [k \in Keys |-> returned_before[k] \cup {returned[k][i] : i \in 1..Len(returned[k])}]
    /\ journaled_before' = [k \in Keys |-> JournaledValues(append_dir', k)]
    /\ base' = [k \in Keys |-> 0]
    /\ applied' = EmptyMap
    /\ UNCHANGED served

SeqNext ==
    \/ Start
    \/ LoadNextEntry
    \/ LoadFail
    \/ LoadPublish
    \/ StartService
    \/ \E t \in Runtimes, k \in Keys : NextSeq(t, k)
    \/ \E t \in Runtimes : Journal(t)
    \/ Kill

\* ------------------------------------------------ message node: handlers
\* A node, the maps and queues its handlers are given through
\* HandlerParameters, and the handlers of
\* server/message/src/cluster/handler/pure_text.rs,
\* server/message/src/service/handler/business.rs and
\* server/scheduler/src/cluster/handler/message.rs.

\* util::my_id(): the id of this node.
my_id == 1

\* The other nodes of the cluster.
Peers == {2}

NodeIds == {my_id} \cup Peers

Users == {10, 11}

Groups == {100}

\* Type: the numeric values of the message types.
TypeAuth == 1
TypeAck == 2
TypeEcho == 6
TypeText == 32
TypeJoinGroup == 64
TypeRemoteInvoke == 69
TypeMessageNodeRegister == 96
TypeMessageNodeUnregister == 97

\* The types of the messages the model sends: 63 is the call type of the
\* user-text range.
Types == {TypeAuth, TypeText, 63, TypeJoinGroup, TypeRemoteInvoke,
          TypeMessageNodeRegister, TypeMessageNodeUnregister}

\* The head of a Msg: user 10 writes to user 11 or to group 100, and names the
\* node that hosts the receiver.
\* The payload is opaque to every handler; the model varies it where a handler
\* builds a new message from it, i.e. in the register messages.
Payloads == {"a", "b"}

Msgs ==
    {m \in [typ : Types, sender : {10}, receiver : {11} \cup Groups,
            node_id : NodeIds, payload : Payloads] :
        m.typ # TypeMessageNodeRegister => m.payload = "a"}

NoMsg == [typ |-> 0, sender |-> 0, receiver |-> 0, node_id |-> 0, payload |-> ""]

\* inner_states["client_timestamp"]
ClientTimestamps == {5, 9}

\* A generate_ack that is given no client_timestamp.
NoTimestamp == 0

\* Msg::generate_ack(my_id, client_timestamp)
generate_ack(m, id, ts) ==
    [typ |-> TypeAck, sender |-> m.sender, receiver |-> m.receiver, node_id |-> id,
     ts |-> ts]

NoAck == [typ |-> 0, sender |-> 0, receiver |-> 0, node_id |-> 0, ts |-> 0]

\* The queues the handlers send on.
ClientQueue(u) == <<"client", u>>
ClusterQueue(n) == <<"cluster", n>>
IoQueue == <<"io", 0>>
GroupQueue == <<"group", 0>>

Queues ==
    {ClientQueue(u) : u \in Users} \cup {ClusterQueue(n) : n \in Peers}
        \cup {IoQueue, GroupQueue}

\* A handler is called when fewer than MaxInFlight messages wait in the queues.
MaxInFlight == 1

RECURSIVE SumLen(_, _)
SumLen(ch, qs) ==
    IF qs = {} THEN 0
    ELSE LET q == CHOOSE x \in qs : TRUE IN Len(ch[q]) + SumLen(ch, qs \ {q})

InFlight == SumLen(chan, Queues)

\* map.get(&key): "absent" is None; "live" is a sender whose receiver is held
\* by the task that consumes the queue, "dead" one whose receiver was dropped.
EntryOf(entries, k) == IF k \in DOMAIN entries THEN entries[k] ELSE "absent"

\* sender.send(msg).await: Err when the receiver of the channel was dropped.
send(ch, q, m, entry) ==
    IF entry = "live"
    THEN [ok |-> TRUE, chan |-> [ch EXCEPT ![q] = Append(@, m)]]
    ELSE [ok |-> FALSE, chan |-> ch]

\* What a call of a handler produces: its result and the queues after it.
Declined(ch) == [result |-> "NotMine", ack |-> NoAck, chan |-> ch]
Failed(ch) == [result |-> "Err", ack |-> NoAck, chan |-> ch]
Acked(a, ch) == [result |-> "Ack", ack |-> a, chan |-> ch]

\* match client_map.get(&receiver) { Some(s) => s.send(msg.clone()).await?,
\* None => debug!(..) }
DeliverLocal(m, ch) ==
    LET entry == EntryOf(client_map, m.receiver)
    IN IF entry = "absent" THEN [ok |-> TRUE, chan |-> ch]
       ELSE send(ch, ClientQueue(m.receiver), m, entry)

\* is_group_msg(receiver)
is_group_msg(r) == r \in Groups

\* push_group_msg(msg, false): the group fan-out task receives one envelope.
push_group_msg(m, ch) == send(ch, GroupQueue, m, "live")

TextMineAny(t) == ~(t < 32)

\* Text::run keeps the types of the user-text range.
TextMine(t) == ~(t < 32 \/ t >= 64)

\* Text::run
Text(m, ts, ch) ==
    IF ~TextMine(m.typ) THEN Declined(ch)
    ELSE IF is_group_msg(m.receiver)
         THEN LET g == push_group_msg(m, ch)
              IN IF g.ok THEN Acked(generate_ack(m, my_id, ts), g.chan) ELSE Failed(g.chan)
         ELSE LET d == DeliverLocal(m, ch)
              IN IF ~d.ok THEN Failed(d.chan)
                 ELSE LET io == send(d.chan, IoQueue, m, "live")
                      IN Acked(generate_ack(m, my_id, ts), io.chan)

IsLocalAlways(m) == TRUE

\* forward_only_user: if node_id == my_id()
IsLocal(m) == m.node_id = my_id

\* forward_only_user
forward_only_user(m, ch) ==
    IF IsLocal(m)
    THEN LET d == DeliverLocal(m, ch)
         IN IF ~d.ok THEN Failed(d.chan)
            ELSE LET io == send(d.chan, IoQueue, m, "live")
                 IN Acked(generate_ack(m, my_id, NoTimestamp), io.chan)
    ELSE LET entry == EntryOf(cluster_map, m.node_id)
         IN IF entry = "absent" THEN Acked(generate_ack(m, my_id, NoTimestamp), ch)
            ELSE LET c == send(ch, ClusterQueue(m.node_id), m, entry)
                 IN IF c.ok THEN Acked(generate_ack(m, my_id, NoTimestamp), c.chan)
                    ELSE Failed(c.chan)

\* The handlers that end in forward_only_user, and the type each one keeps.
ForwardHandlers ==
    {"JoinGroup", "LeaveGroup", "AddFriend", "RemoveFriend", "SystemMessage",
     "SetRelationship"}

TypeOf ==
    [JoinGroup |-> TypeJoinGroup, LeaveGroup |-> 65, AddFriend |-> 66,
     RemoveFriend |-> 67, SystemMessage |-> 68, RemoteInvoke |-> TypeRemoteInvoke,
     SetRelationship |-> 70,
     NodeRegister |-> TypeMessageNodeRegister,
     NodeUnregister |-> TypeMessageNodeUnregister,
     Auth |-> TypeAuth, Echo |-> TypeEcho]

\* JoinGroup::run, LeaveGroup::run, AddFriend::run, RemoveFriend::run,
\* SystemMessage::run, SetRelationship::run
Business(h, m, ch) ==
    IF m.typ # TypeOf[h] THEN Declined(ch) ELSE forward_only_user(m, ch)

\* RemoteInvoke::run
RemoteInvoke(m, ch) ==
    IF m.typ # TypeRemoteInvoke THEN Declined(ch)
    ELSE Acked(generate_ack(m, my_id, NoTimestamp), ch)

\* The loop with the result of each send dropped: every entry is tried.
RECURSIVE SendEachAll(_, _, _)
SendEachAll(order, m, ch) ==
    IF order = <<>> THEN [ok |-> TRUE, chan |-> ch]
    ELSE SendEachAll(Tail(order), m,
                     send(ch, ClientQueue(Head(order)), m, client_map[Head(order)]).chan)

\* for entry in client_map.iter() { entry.value().send(notify_msg.clone()).await?; }
\* over the entries in the order the iterator yields them.
RECURSIVE SendEach(_, _, _)
SendEach(order, m, ch) ==
    IF order = <<>> THEN [ok |-> TRUE, chan |-> ch]
    ELSE LET u == Head(order)
             s == send(ch, ClientQueue(u), m, client_map[u])
         IN IF s.ok THEN SendEach(Tail(order), m, s.chan) ELSE s

\* The orders in which an iterator can yield the keys S.
Orders(S) ==
    {o \in [1..Cardinality(S) -> S] : \A i, j \in DOMAIN o : o[i] = o[j] => i = j}

Entries == {u \in Users : client_map[u] # "absent"}

\* Msg::from_payload_extension(payload, extension): a message with that
\* payload and a zeroed head (the extension is not part of the model's Msg).
from_payload_extension(payload) ==
    [typ |-> 0, sender |-> 0, receiver |-> 0, node_id |-> 0, payload |-> payload]

\* notify_msg with set_sender left out.
notify_msg_unsigned(m) ==
    [from_payload_extension(m.payload) EXCEPT !.typ = TypeMessageNodeRegister]

\* notify_msg: from_payload_extension, set_type, set_sender.
notify_msg(m) ==
    [from_payload_extension(m.payload) EXCEPT !.typ = TypeMessageNodeRegister,
                                              !.sender = m.sender]

\* NodeRegister::run
NodeRegister(m, ch) ==
    IF m.typ # TypeMessageNodeRegister THEN {Declined(ch)}
    ELSE {LET s == SendEach(o, notify_msg(m), ch)
          IN [order |-> o] @@
             (IF s.ok THEN Acked(generate_ack(m, my_id, NoTimestamp), s.chan)
              ELSE Failed(s.chan)) : o \in Orders(Entries)}

\* The entries of the loop with the test of the key left out.
EntriesAll(m) == Entries

\* The entries NodeUnregister sends to:
\* if *entry.key() as u64 == msg.sender() { continue; }
EntriesButSender(m) == Entries \ {m.sender}

\* NodeUnregister::run
NodeUnregister(m, ch) ==
    IF m.typ # TypeMessageNodeUnregister THEN {Declined(ch)}
    ELSE {LET s == SendEach(o, m, ch)
          IN [order |-> o] @@
             (IF s.ok THEN [result |-> "Noop", ack |-> NoAck, chan |-> s.chan]
              ELSE Failed(s.chan)) : o \in Orders(EntriesButSender(m))}

\* Auth and Echo, as far as the pipeline sees them: each keeps its own type.
Auth(m, ts, ch) ==
    IF m.typ # TypeAuth THEN Declined(ch) ELSE Acked(generate_ack(m, my_id, ts), ch)

Echo(m, ch) ==
    IF m.typ # TypeEcho THEN Declined(ch)
    ELSE [result |-> "Echo", ack |-> NoAck, chan |-> ch]

\* Handler::run of handler h: the outcomes the call can have.
Run(h, m, ts, ch) ==
    CASE h = "Text" -> {Text(m, ts, ch)}
      [] h \in ForwardHandlers -> {Business(h, m, ch)}
      [] h = "RemoteInvoke" -> {RemoteInvoke(m, ch)}
      [] h = "NodeRegister" -> NodeRegister(m, ch)
      [] h = "NodeUnregister" -> NodeUnregister(m, ch)
      [] h = "Auth" -> {Auth(m, ts, ch)}
      [] h = "Echo" -> {Echo(m, ch)}

\* The handlers whose run is called directly.
Handlers == {"Text", "RemoteInvoke", "NodeRegister", "NodeUnregister"} \cup ForwardHandlers

\* start(): the handler list of the message node.
handler_list == <<"Auth", "Echo", "Text">>

\* The pipeline: each handler in order, up to the first result that is not
\* NotMine. trail lists the handlers tried, what each returned and whether
\* the queues differ after it.
RECURSIVE Dispatch(_, _, _, _, _)
Dispatch(list, m, ts, ch, trail) ==
    IF list = <<>>
    THEN {[result |-> "NotMine", ack |-> NoAck, chan |-> ch, by |-> "none",
           trail |-> trail]}
    ELSE UNION {LET t == Append(trail, <<Head(list), o.result, o.chan # ch>>)
                IN IF o.result = "NotMine"
                   THEN Dispatch(Tail(list), m, ts, o.chan, t)
                   ELSE {[result |-> o.result, ack |-> o.ack, chan |-> o.chan,
                          by |-> Head(list), trail |-> t]}
                : o \in Run(Head(list), m, ts, ch)}

\* What a call appended to each queue.
Sent(ch, after) ==
    [q \in Queues |-> SubSeq(after[q], Len(ch[q]) + 1, Len(after[q]))]

NoCall ==
    [by |-> "none", msg |-> NoMsg, ts |-> 0, result |-> "none", ack |-> NoAck,
     trail |-> <<>>, sent |-> [q \in Queues |-> <<>>], pipeline |-> FALSE,
     entry |-> "absent", peer |-> "absent", order |-> <<>>]

NodeInit ==
    /\ client_map = [u \in Users |-> "absent"]
    /\ cluster_map = [n \in Peers |-> "absent"]
    /\ chan = [q \in Queues |-> <<>>]
    /\ call = NoCall

NodeIdle == NodeInit

NodeOnly == UNCHANGED <<seqVars, connVars, pumpVars, sessVars, cfgVars, dialVars>>

\* What the call of a handler, or of the pipeline, leaves behind: the queues
\* after it and the record of the call.
Called(m, ts, o, by, trail, pipeline) ==
    /\ chan' = o.chan
    /\ call' = [by |-> by, msg |-> m, ts |-> ts, result |-> o.result, ack |-> o.ack,
                trail |-> trail, sent |-> Sent(chan, o.chan), pipeline |-> pipeline,
                entry |-> EntryOf(client_map, m.receiver),
                peer |-> EntryOf(cluster_map, m.node_id),
                order |-> IF "order" \in DOMAIN o THEN o.order ELSE <<>>]
    /\ UNCHANGED <<client_map, cluster_map>>
    /\ NodeOnly

\* A call of run of a handler with a message, outside any pipeline, once the
\* result of the call before it has been written back.
HandlerRun ==
    /\ call = NoCall
    /\ InFlight < MaxInFlight
    /\ \E h \in Handlers, m \in Msgs, ts \in ClientTimestamps :
          \E o \in Run(h, m, ts, chan) :
              Called(m, ts, o, h, << <<h, o.result, o.chan # chan>> >>, FALSE)

\* A message read from a connection of the message node goes through the
\* handler list start() built.
Process ==
    /\ call = NoCall
    /\ InFlight < MaxInFlight
    /\ \E m \in Msgs, ts \in ClientTimestamps :
          \E o \in Dispatch(handler_list, m, ts, chan, <<>>) :
              Called(m, ts, o, o.by, o.trail, TRUE)

\* The result of the call is written back on the originating stream, or
\* logged, and the connection handler turns to its next message.
WriteBack ==
    /\ call # NoCall
    /\ call' = NoCall
    /\ UNCHANGED <<client_map, cluster_map, chan>>
    /\ NodeOnly

\* The task at the other end of queue q takes the message at its head.
Consume(q) ==
    /\ chan[q] # <<>>
    /\ chan' = [chan EXCEPT ![q] = Tail(@)]
    /\ UNCHANGED <<client_map, cluster_map, call>>
    /\ NodeOnly

\* A connection's first message names user u: its handler creates a channel
\* and inserts the sender under u.
ClientInstall(u) ==
    /\ client_map' = [client_map EXCEPT ![u] = "live"]
    /\ chan' = [chan EXCEPT ![ClientQueue(u)] = <<>>]
    /\ UNCHANGED <<cluster_map, call>>
    /\ NodeOnly

\* The handler task of u's connection leaves its loop: the receiver is
\* dropped with what it holds; the entry stays in the map.
ClientExit(u) ==
    /\ client_map[u] = "live"
    /\ client_map' = [client_map EXCEPT ![u] = "dead"]
    /\ chan' = [chan EXCEPT ![ClientQueue(u)] = <<>>]
    /\ UNCHANGED <<cluster_map, call>>
    /\ NodeOnly

\* new_connection to peer n returned and its channel pair is in the map.
ClusterInstall(n) ==
    /\ cluster_map' = [cluster_map EXCEPT ![n] = "live"]
    /\ chan' = [chan EXCEPT ![ClusterQueue(n)] = <<>>]
    /\ UNCHANGED <<client_map, call>>
    /\ NodeOnly

\* Every stream task of the connection to peer n has left its loop: all the
\* receivers of the outbound channel are dropped.
ClusterExit(n) ==
    /\ cluster_map[n] = "live"
    /\ cluster_map' = [cluster_map EXCEPT ![n] = "dead"]
    /\ chan' = [chan EXCEPT ![ClusterQueue(n)] = <<>>]
    /\ UNCHANGED <<client_map, call>>
    /\ NodeOnly

NodeNext ==
    \/ HandlerRun
    \/ Process
    \/ WriteBack
    \/ \E q \in Queues : Consume(q)
    \/ \E u \in Users : ClientInstall(u)
    \/ \E u \in Users : ClientExit(u)
    \/ \E n \in Peers : ClusterInstall(n)
    \/ \E n \in Peers : ClusterExit(n)

\* ------------------------------------- message node: connection handlers
\* Server::handle of server/message/src/core/net.rs: one spawned task per
\* accepted connection.

Connections == {1, 2}

\* c_map holds no sender for the user.
NoConnection == 0

\* mpsc::channel(10) of a connection, scaled down.
SessQueueDepth == 1

\* What a first read can yield: a message of any type from any sender; valid
\* says whether its {user_id, node_id, token} would pass validation.
FirstMsgs == [typ : {TypeAuth, TypeText}, sender : Users, valid : BOOLEAN]

NoFirst == [read |-> "none", typ |-> 0, sender |-> 0, valid |-> FALSE]

NoAnswer == [result |-> "none", wrote |-> "none"]

SessInit ==
    /\ c_map = [u \in Users |-> NoConnection]
    /\ task = [c \in Connections |-> "none"]
    /\ sess_q = [c \in Connections |-> <<>>]
    /\ first = [c \in Connections |-> NoFirst]
    /\ answer = [c \in Connections |-> NoAnswer]

SessIdle == SessInit

SessOnly == UNCHANGED <<seqVars, connVars, pumpVars, nodeVars, cfgVars, dialVars>>

\* handle(stream): the task is spawned and creates its channel.
Handle(c) ==
    /\ task[c] = "none"
    /\ task' = [task EXCEPT ![c] = "first"]
    /\ UNCHANGED <<c_map, sess_q, first, answer>>
    /\ SessOnly

\* The first read yields a message: its sender is inserted with the sender of
\* the channel, and the task enters its loop.
FirstRead(c, m) ==
    /\ task[c] = "first"
    /\ c_map' = [c_map EXCEPT ![m.sender] = c]
    /\ first' = [first EXCEPT ![c] = [read |-> "ok", typ |-> m.typ,
                                     sender |-> m.sender, valid |-> m.valid]]
    /\ task' = [task EXCEPT ![c] = "loop"]
    /\ UNCHANGED <<sess_q, answer>>
    /\ SessOnly

\* The first read fails: nothing is inserted, and the task enters its loop.
FirstReadErr(c) ==
    /\ task[c] = "first"
    /\ first' = [first EXCEPT ![c] = [NoFirst EXCEPT !.read = "err"]]
    /\ task' = [task EXCEPT ![c] = "loop"]
    /\ UNCHANGED <<c_map, sess_q, answer>>
    /\ SessOnly

\* The read arm yields a message for user u and process() sends it to the
\* sender c_map holds for u, whose receiver is still held.
Deliver(c, u) ==
    /\ task[c] = "loop"
    /\ c_map[u] # NoConnection
    /\ task[c_map[u]] = "loop"
    /\ Len(sess_q[c_map[u]]) < SessQueueDepth
    /\ sess_q' = [sess_q EXCEPT ![c_map[u]] = Append(@, u)]
    /\ UNCHANGED <<c_map, task, first, answer>>
    /\ SessOnly

\* The read arm yields a message and process returns: Ok(msg) is written to
\* the stream, and a failed write is logged; Err is dropped by the `if let`.
\* The loop goes on in every case.
LoopRead(c, result, written) ==
    /\ task[c] = "loop"
    /\ answer' = [answer EXCEPT ![c] =
                     [result |-> result,
                      wrote |-> IF result = "ok" /\ written THEN "reply" ELSE "none"]]
    /\ UNCHANGED <<c_map, task, sess_q, first>>
    /\ SessOnly

\* The recv arm takes a message and writes it to the stream.
LoopRecv(c) ==
    /\ task[c] = "loop"
    /\ sess_q[c] # <<>>
    /\ sess_q' = [sess_q EXCEPT ![c] = Tail(@)]
    /\ UNCHANGED <<c_map, task, first, answer>>
    /\ SessOnly

\* break: the task ends and drops the receiver with what it holds.
LoopBreak(c) ==
    /\ task' = [task EXCEPT ![c] = "done"]
    /\ sess_q' = [sess_q EXCEPT ![c] = <<>>]
    /\ UNCHANGED <<c_map, first, answer>>
    /\ SessOnly

\* The read arm fails: read error or peer close.
LoopReadErr(c) ==
    /\ task[c] = "loop"
    /\ LoopBreak(c)

\* The recv arm takes a message and the write to the stream fails.
LoopRecvWriteErr(c) ==
    /\ task[c] = "loop"
    /\ sess_q[c] # <<>>
    /\ LoopBreak(c)

SessNext ==
    \/ \E c \in Connections : Handle(c)
    \/ \E c \in Connections, m \in FirstMsgs : FirstRead(c, m)
    \/ \E c \in Connections : FirstReadErr(c)
    \/ \E c \in Connections, u \in Users : Deliver(c, u)
    \/ \E c \in Connections, r \in {"ok", "err"}, w \in BOOLEAN : LoopRead(c, r, w)
    \/ \E c \in Connections : LoopRecv(c)
    \/ \E c \in Connections : LoopReadErr(c)
    \/ \E c \in Connections : LoopRecvWriteErr(c)

\* ------------------------------------------------ client configuration

\* The fields of ClientConfigBuilder, in the order build takes them.
Fields ==
    <<"remote_address", "domain", "cert", "keep_alive_interval", "max_bi_streams",
      "max_uni_streams", "max_sender_side_channel_size",
      "max_receiver_side_channel_size">>

FieldNames == {Fields[i] : i \in DOMAIN Fields}

\* Option::None, and the values a setter is given.
None == 0
FieldValues == {1, 2}

\* The text of the error build returns when it finds the field unset.
Required ==
    [remote_address |-> "address is required",
     domain |-> "domain is required",
     cert |-> "cert is required",
     keep_alive_interval |-> "keep_alive_interval is required",
     max_bi_streams |-> "max_bi_streams is required",
     max_uni_streams |-> "max_uni_streams is required",
     max_sender_side_channel_size |-> "max_io_channel_size is required",
     max_receiver_side_channel_size |-> "max_task_channel_size is required"]

\* ClientConfigBuilder::default()
Default == [f \in FieldNames |-> None]

NoBuilt == [status |-> "none", config |-> Default, message |-> ""]

BuildInit ==
    /\ builder = Default
    /\ built = NoBuilt

BuildIdle == BuildInit

BuildOnly == UNCHANGED <<seqVars, connVars, pumpVars, nodeVars, sessVars, dialVars>>

\* with_<f>(v)
With(f, v) ==
    /\ built = NoBuilt
    /\ builder' = [builder EXCEPT ![f] = v]
    /\ UNCHANGED built
    /\ BuildOnly

\* build(self): each field in turn with ok_or_else(..)?, then Ok(ClientConfig).
RECURSIVE build(_, _)
build(b, i) ==
    IF i > Len(Fields) THEN [status |-> "ok", config |-> b, message |-> ""]
    ELSE IF b[Fields[i]] = None
         THEN [status |-> "err", config |-> Default, message |-> Required[Fields[i]]]
         ELSE build(b, i + 1)

\* build consumes the builder; the model keeps its fields next to the result
\* until the next builder is made.
Build ==
    /\ built = NoBuilt
    /\ built' = build(builder, 1)
    /\ UNCHANGED builder
    /\ BuildOnly

\* A new builder: ClientConfig::builder().
NewBuilder ==
    /\ built # NoBuilt
    /\ builder' = Default
    /\ built' = NoBuilt
    /\ BuildOnly

BuildNext ==
    \/ \E i \in DOMAIN Fields, v \in FieldValues : With(Fields[i], v)
    \/ Build
    \/ NewBuilder

\* ------------------------------------------------- scheduler dial run

\* The cluster has up to MaxSchedulers replicas, and up to MaxFailures dials
\* of all their runs end otherwise than with an Auth reply.
MaxSchedulers == 5
MaxFailures == 1

\* The cluster address of the k-th replica, and its node id.
Address(k) == 11400 + 7 * k
Id(addr) == addr - 11400

\* CONFIG.cluster.addresses as an operator may have written them.
Ascending(n) == [k \in 1..n |-> Address(k)]
Descending(n) == [k \in 1..n |-> Address(n + 1 - k)]

Configs == {Ascending(n) : n \in 1..MaxSchedulers} \cup {Descending(n) : n \in 1..MaxSchedulers}

Replicas == {addresses[k] : k \in DOMAIN addresses}

\* Vec::sort, by insertion.
RECURSIVE Insert(_, _)
Insert(sorted, a) ==
    IF sorted = <<>> THEN <<a>>
    ELSE IF a <= Head(sorted) THEN <<a>> \o sorted
         ELSE <<Head(sorted)>> \o Insert(Tail(sorted), a)

RECURSIVE sort(_)
sort(v) == IF v = <<>> THEN <<>> ELSE Insert(sort(Tail(v)), Head(v))

\* num with the list's length halved.
num_half(addr_vec) == Len(addr_vec) \div 2

\* let num = (addr_vec.len() - 1) / 2;
num(addr_vec) == (Len(addr_vec) - 1) \div 2

\* index left at this replica's own position in the list.
index_at_self(addr_vec, my_addr, k) ==
    (CHOOSE j \in DOMAIN addr_vec : addr_vec[j] = my_addr) - 1

\* for addr in addr_vec.iter() { index += 1; if *addr == my_addr { break; } }
\* from the k-th address on, index being k - 1 before it.
RECURSIVE index_after(_, _, _)
index_after(addr_vec, my_addr, k) ==
    IF k > Len(addr_vec) THEN k - 1
    ELSE IF addr_vec[k] = my_addr THEN k
         ELSE index_after(addr_vec, my_addr, k + 1)

\* The failures that end the run, with the closed reply channel among them.
ends_run_or_none(outcome) == outcome \in {"run_err", "info_err", "none"}

\* The failures that end the run: client.run().await? and
\* client.io_channel_server_info(..).await?
ends_run(outcome) == outcome \in {"run_err", "info_err"}

\* The ways a dial can end: Auth reply, client.run() error, server-info
\* exchange error, a reply of another type, reply channel closed.
Outcomes == {"ok", "run_err", "info_err", "not_auth", "none"}

DialInit ==
    /\ addresses \in Configs
    /\ sched = [r \in Replicas |->
                  [pc |-> "start", index |-> 0, cluster_set |-> {},
                   cluster_map |-> {}, spawned |-> {}, attempts |-> <<>>]]

\* No replica is configured.
DialIdle ==
    /\ addresses = <<>>
    /\ sched = <<>>

DialOnly == UNCHANGED <<seqVars, connVars, pumpVars, nodeVars, sessVars, cfgVars>>

\* The dials of the runs in s that did not end with an Auth reply.
RECURSIVE Failures(_, _)
Failures(s, R) ==
    IF R = {} THEN 0
    ELSE LET r == CHOOSE x \in R : TRUE
         IN Cardinality({k \in DOMAIN s[r].attempts : s[r].attempts[k].outcome # "ok"})
            + Failures(s, R \ {r})

\* A reply is taken for the peer's Auth whatever its type.
is_reply(outcome) == outcome \in {"ok", "not_auth"}

\* Some(res_msg) with res_msg.typ() == Type::Auth
is_auth(outcome) == outcome = "ok"

\* One iteration of the loop for the run st: the address at index, the check
\* against cluster_set, the client, client.run(), the server-info exchange
\* and the reply. An error of the first two ends the run; an Auth reply
\* enters the peer in cluster_set and cluster_map and its handler is spawned;
\* any other reply, or none, goes on to the next iteration. In every case
\* client goes out of scope, which closes its endpoint.
Iteration(st, outcome, addr_vec) ==
    LET i == st.index % Len(addr_vec)
        addr == addr_vec[i + 1]
        tried == [st EXCEPT !.index = @ + 1,
                            !.attempts = Append(@, [addr |-> addr, outcome |-> outcome])]
    IN IF addr \in st.cluster_set THEN [st EXCEPT !.index = @ + 1]
       ELSE IF ends_run(outcome) THEN [tried EXCEPT !.pc = "failed"]
       ELSE IF is_auth(outcome)
            THEN [tried EXCEPT !.cluster_set = @ \cup {addr},
                               !.cluster_map = @ \cup {Id(addr)},
                               !.spawned = @ \cup {addr}]
            ELSE tried

\* for _ in 0..num { .. }: iterations k..n, outcomes[k] being what the dial of
\* iteration k meets.
RECURSIVE Loop(_, _, _, _, _)
Loop(st, outcomes, k, n, addr_vec) ==
    IF k > n \/ st.pc = "failed" THEN st
    ELSE Loop(Iteration(st, outcomes[k], addr_vec), outcomes, k + 1, n, addr_vec)

\* What the dials of a run of n iterations meet, one after the other; after
\* a failure that ends the run no dial is made.
Plans(n) ==
    {o \in [1..n -> Outcomes] :
        \A k \in 1..n : ends_run(o[k]) => \A j \in (k + 1)..n : o[j] = "ok"}

NonOk(outcomes) == Cardinality({k \in DOMAIN outcomes : outcomes[k] # "ok"})

\* The plans that keep the failures of all runs within MaxFailures.
Affordable ==
    LET budget == MaxFailures - Failures(sched, Replicas)
    IN {o \in Plans(num(sort(addresses))) : NonOk(o) <= budget}

\* Client::run of replica r, its dials meeting outcomes.
DialRun(r, outcomes) ==
    /\ sched[r].pc = "start"
    /\ LET addr_vec == sort(addresses)
           begun == [sched[r] EXCEPT !.index = index_after(addr_vec, r, 1),
                                     !.pc = "loop"]
           end == Loop(begun, outcomes, 1, num(addr_vec), addr_vec)
       IN sched' = [sched EXCEPT ![r] =
                        IF end.pc = "loop" THEN [end EXCEPT !.pc = "done"] ELSE end]
    /\ UNCHANGED addresses
    /\ DialOnly

DialNext ==
    \E outcomes \in Affordable : \E r \in Replicas : DialRun(r, outcomes)

\* The sequence-number process alone: no transport client exists.
SeqSpecInit == SeqInit /\ ConnIdle /\ PumpIdle /\ NodeIdle /\ SessIdle /\ BuildIdle /\ DialIdle

SeqSpec == SeqSpecInit /\ [][SeqNext]_vars

\* The state of a sequence-number process that is never started.
SeqIdle == SeqInit

\* The transport clients alone.
ConnSpecInit == ConnInit /\ SeqIdle /\ PumpIdle /\ NodeIdle /\ SessIdle /\ BuildIdle /\ DialIdle

ConnSpec == ConnSpecInit /\ [][ConnNext]_vars

\* One connected client alone.
PumpSpecInit == PumpInit /\ SeqIdle /\ ConnIdle /\ NodeIdle /\ SessIdle /\ BuildIdle /\ DialIdle

PumpSpec == PumpSpecInit /\ [][PumpNext]_vars

\* The handlers of one node alone.
NodeSpecInit == NodeInit /\ SeqIdle /\ ConnIdle /\ PumpIdle /\ SessIdle /\ BuildIdle /\ DialIdle

NodeSpec == NodeSpecInit /\ [][NodeNext]_vars

\* The connection handlers of one message node alone.
SessSpecInit == SessInit /\ SeqIdle /\ ConnIdle /\ PumpIdle /\ NodeIdle /\ BuildIdle /\ DialIdle

SessSpec == SessSpecInit /\ [][SessNext]_vars

\* A client configuration alone.
BuildSpecInit == BuildInit /\ SeqIdle /\ ConnIdle /\ PumpIdle /\ NodeIdle /\ SessIdle /\ DialIdle

BuildSpec == BuildSpecInit /\ [][BuildNext]_vars

\* The scheduler replicas alone.
DialSpecInit ==
    DialInit /\ SeqIdle /\ ConnIdle /\ PumpIdle /\ NodeIdle /\ SessIdle /\ BuildIdle

DialSpec == DialSpecInit /\ [][DialNext]_vars

\* One connected client with several streams.
MultiSpec == PumpSpecInit /\ [][MultiNext]_vars

\* A step of the pump task of stream s: whichever select arm, or arm body, is
\* ready.
PumpStep(s) ==
    \/ PumpReadLen(s)
    \/ PumpReadMsg(s)
    \/ PumpReadDesync(s)
    \/ PumpReadErr(s)
    \/ PumpForward(s)
    \/ PumpRecv(s)
    \/ PumpRecvClosed(s)
    \/ PumpWrite(s)

\* The runtime runs a spawned task that is ready, and wakes a suspended send
\* when the channel has room and a suspended recv when it can return; the
\* user and the peer act when they please.
PumpFair ==
    /\ \A s \in Streams : WF_vars(PumpStep(s))
    /\ WF_vars(SendResume)
    /\ WF_vars(RwStreamsReply)

PumpLiveSpec == PumpSpecInit /\ [][PumpNext]_vars /\ PumpFair

\* ------------------------------------------------------------------ claims

ReturnedNow(k) == {returned[k][i] : i \in 1..Len(returned[k])}

\* C1 (as claimed): every value next(K) returns after a restart is strictly
\* greater than every value next(K) returned before the restart.
C1_NeverRegress ==
    \A k \in Keys : \A v \in ReturnedNow(k) : \A w \in returned_before[k] : v > w

\* C1 (amended): every value next(K) returns after a restart is strictly
\* greater than every value a complete record of a seqnum-* segment held for
\* K when the process was killed.
C1_ExceedsJournaled ==
    \A k \in Keys : \A v \in ReturnedNow(k) : \A w \in journaled_before[k] : v > w

\* A key with a journaled value is served again after a restart.
C1_Witness ==
    \E k \in Keys : epoch >= 1 /\ returned[k] # <<>> /\ journaled_before[k] # {}

AllKeys == Keys \cup DOMAIN seqnum_map \cup JournaledKeys(append_dir)

\* C2: when load() has completed, the counter of every key with a complete
\* record in a seqnum-* file is 1 + the largest value recorded for it over all
\* those files, whatever the order of files and records; other files are not
\* read and a key without a record has no counter.
C2_LoadIsMaxPlusOne ==
    phase = "loaded" =>
        \A k \in AllKeys :
            IF k \in JournaledKeys(append_dir)
            THEN /\ k \in DOMAIN seqnum_map
                 /\ seqnum_map[k] = 1 + SetMax(JournaledValues(append_dir, k))
            ELSE k \notin DOMAIN seqnum_map

\* load() has completed over two segments that hold different values of one
\* key, beside a file that is no segment.
C2_Witness ==
    /\ phase = "loaded"
    /\ OtherName \in DOMAIN append_dir
    /\ \E k \in Keys, n1, n2 \in SeqnumFiles(append_dir) :
         /\ n1 # n2
         /\ <<k, 2>> \in {RecordsOf(append_dir[n1])[i] : i \in 1..Len(RecordsOf(append_dir[n1]))}
         /\ <<k, 1>> \in {RecordsOf(append_dir[n2])[i] : i \in 1..Len(RecordsOf(append_dir[n2]))}

\* C3 (as claimed): after n calls of next(K) on a fresh key, all journaled, and
\* a kill and restart, the first next(K) returns n + 1.
C3_FirstAfterRestart ==
    \A k \in Keys :
        LET n == Cardinality(returned_before[k])
        IN  ( /\ epoch = 1
              /\ n >= 1
              /\ returned_before[k] = 1..n
              /\ journaled_before[k] = 1..n
              /\ returned[k] # <<>> )
            => returned[k][1] = n + 1

\* C4: the values N next(K) calls return, whichever runtimes serve them and in
\* whatever order, are pairwise distinct and are exactly v0+1 .. v0+N, v0 the
\* counter of K before the calls.
C4_Permutation ==
    phase = "serving" =>
        \A k \in Keys :
            /\ \A i, j \in 1..Len(returned[k]) : i # j => returned[k][i] # returned[k][j]
            /\ ReturnedNow(k) = (base[k] + 1)..(base[k] + Len(returned[k]))

\* Two runtimes have each served a next() of the same key.
C4_Witness ==
    /\ phase = "serving"
    /\ \E k \in Keys :
         /\ Len(returned[k]) >= 2
         /\ \A t \in Runtimes : pending[t] # <<>> /\ Head(pending[t])[1] = k

\* C6 (as claimed): a run() call on a client that holds a live connection
\* completes without failure and reuses that connection: no connection is
\* opened and the client keeps the one it has.
C6_SecondRunReuses ==
    [][\A c \in ClientIds :
         (clients'[c].runs = clients[c].runs + 1 /\ clients[c].connection \in LiveIds)
         => /\ clients'[c].result = "ok"
            /\ clients'[c].connection = clients[c].connection
            /\ live' = live]_vars

\* The connections the ClientMultiConnection holds to address a.
MultiLive(a) == {l \in live : l.owner = MultiEndpoint /\ l.remote = a}

\* C7 (as claimed): at most one live connection from the local endpoint to a
\* remote peer; a new_connection request for an address that has a live
\* connection opens its streams on that connection and creates no other.
C7_OneConnectionPerPeer ==
    /\ [](\A a \in Addrs : Cardinality(MultiLive(a)) <= 1)
    /\ [][\A a \in Addrs :
            (Len(subs') = Len(subs) + 1 /\ subs'[Len(subs')].remote = a /\ MultiLive(a) # {})
            => /\ live' = live
               /\ subs'[Len(subs')].result = "ok"
               /\ subs'[Len(subs')].conn \in {l.id : l \in MultiLive(a)}]_vars

\* Segment n ends in a torn record.
TornSegment(n) ==
    n \in SeqnumFiles(append_dir) /\ Len(append_dir[n]) % RecordLen # 0

\* C5: a trailing torn record is ignored: while load() runs and when it has
\* completed, of every segment it has read exactly the complete records have
\* been applied; a segment's failing read never made load() fail; and when
\* load() has completed it has read every seqnum-* file.
C5_TornIgnored ==
    /\ phase \in {"loading", "loaded"} =>
          \A n \in DOMAIN applied : applied[n] = Len(append_dir[n]) \div RecordLen
    /\ phase = "loaded" => SeqnumFiles(append_dir) \subseteq DOMAIN applied
    /\ phase = "load_failed" => DOMAIN applied = {}

\* load() has read a segment that ends in a torn record behind a complete
\* one, and goes on: another segment is still to be read.
C5_Witness ==
    /\ phase = "loading"
    /\ \E n \in DOMAIN applied :
         /\ TornSegment(n)
         /\ applied[n] >= 1
    /\ \E m \in dir : starts_with(m, SeqnumPrefix) /\ Len(append_dir[m]) >= RecordLen

\* The sequence 1, 2, .., n.
UpTo(n) == [i \in 1..n |-> i]

IsPrefix(a, b) == Len(a) <= Len(b) /\ \A i \in 1..Len(a) : a[i] = b[i]

Suspended == IF prod.state = "suspended" THEN <<prod.msg>> ELSE <<>>

\* C8: the outbound channel never holds more than SendQueueDepth messages; a
\* send is queued at once exactly when the channel holds fewer than that,
\* and otherwise suspends with the channel left as it was; a suspended send
\* completes only after a pump dequeued a message since it suspended, by
\* queueing its own message; and no message is ever failed or dropped: what
\* the pumps dequeued, then the channel, then the suspended message, are the
\* messages sent so far, in the order sent.
C8_Backpressure ==
    /\ [](Len(outq) <= SendQueueDepth)
    /\ [](deq_all \o outq \o Suspended = UpTo(prod.issued))
    /\ [][prod'.issued = prod.issued + 1
            => IF Len(outq) < SendQueueDepth
               THEN prod'.state = "idle" /\ outq' = Append(outq, prod'.issued)
               ELSE prod'.state = "suspended" /\ prod'.msg = prod'.issued
                    /\ outq' = outq]_vars
    /\ [][(prod.state = "suspended" /\ prod'.state # "suspended")
            => /\ Len(deq_all) > prod.deq_seen
               /\ outq' = Append(outq, prod.msg)]_vars

\* The (k+1)-th send completed after it had been suspended on a channel of k
\* messages none of which had been dequeued.
C8_Witness ==
    /\ prod.state = "idle"
    /\ prod.issued = SendQueueDepth + 1
    /\ prod.resumed = 1
    /\ prod.deq_seen = 0
    /\ deq_all = <<1>>
    /\ outq = [i \in 1..SendQueueDepth |-> i + 1]

\* C9: a pump that left its loop on an I/O error left no message waiting in
\* the outbound channel.
C9_DrainsBeforeExit ==
    \A s \in Streams : exit_cause[s] = "io" => left_at_exit[s] = 0

\* The frames the pump of stream s took from the wire and still holds.
InHand(s) ==
    IF pc[s] = "forward" THEN <<held[s]>>
    ELSE IF rd[s] = "len" THEN <<taken[s][Len(taken[s])]>>
    ELSE <<>>

\* The message the pump of stream s dequeued and has not written yet.
InWrite(s) == IF pc[s] = "write" THEN <<held[s]>> ELSE <<>>

\* C10: on every stream whose pump runs, the frames that reached the inbound
\* channel are, in wire order, the frames the pump took from the wire, less
\* the one it still holds: none lost, none duplicated, none that the peer did
\* not write; and the messages written to the wire are, in order, the
\* messages dequeued from the outbound channel, less the one being written.
C10_OrderPreserved ==
    \A s \in Streams :
        pc[s] \in {"select", "forward", "write"}
        => /\ forwarded[s] \o InHand(s) = taken[s]
           /\ IsPrefix(taken[s], peer_wrote[s])
           /\ wire_out[s] \o InWrite(s) = dequeued[s]

\* C11: once every sender of the outbound channel has been dropped, or the
\* receiver of the inbound channel has been dropped, a running stream pump
\* eventually leaves its loop.
C11_QueueCloseEndsPump ==
    \A s \in Streams :
        (pc[s] \in {"select", "forward", "write"} /\ (~sender_alive \/ ~receiver_alive))
            ~> (pc[s] = "done")

\* The latest call was accepted by Text or by a handler that ends in
\* forward_only_user.
UserCall == call.by \in {"Text"} \cup ForwardHandlers /\ call.result # "NotMine"

\* C12: a Text or Business message its handler accepts is answered with an
\* ACK in every routing outcome; the ACK has the sender and the receiver of
\* the message and the id of this node, and the ACK of Text has the
\* client_timestamp of inner_states.
C12_AlwaysAck ==
    UserCall =>
        /\ call.result = "Ack"
        /\ call.ack.sender = call.msg.sender
        /\ call.ack.receiver = call.msg.receiver
        /\ call.ack.node_id = my_id
        /\ call.by = "Text" => call.ack.ts = call.ts

\* C13: a non-group message for this node is sent once on the queue of the
\* receiver's session when there is one, and once to the I/O task whether the
\* receiver is present, missing, or its queue cannot take the message.
C13_LocalOnceAndIo ==
    (UserCall /\ ~is_group_msg(call.msg.receiver) /\ call.msg.node_id = my_id) =>
        /\ call.entry = "live" => call.sent[ClientQueue(call.msg.receiver)] = <<call.msg>>
        /\ call.sent[IoQueue] = <<call.msg>>

\* The latest call was accepted by a handler that ends in forward_only_user,
\* for a message that names another node.
ForwardCall ==
    /\ call.by \in ForwardHandlers
    /\ call.result # "NotMine"
    /\ call.msg.node_id # my_id

\* C14: a message that names another node with an entry in the cluster map is
\* sent once on that peer's queue and on no other queue, and is answered with
\* an ACK of this node.
C14_ForwardOnce ==
    (ForwardCall /\ call.peer # "absent") =>
        /\ call.sent[ClusterQueue(call.msg.node_id)] = <<call.msg>>
        /\ \A q \in Queues \ {ClusterQueue(call.msg.node_id)} : call.sent[q] = <<>>
        /\ call.result = "Ack"
        /\ call.ack.node_id = my_id

SentOut ==
    UNION {{call.sent[q][i] : i \in DOMAIN call.sent[q]} :
           q \in {ClientQueue(u) : u \in Users} \cup {ClusterQueue(n) : n \in Peers}}

\* C16: every message Text or forward_only_user hands to a session queue or
\* to a peer's queue, and every ACK they return, carries the id of this node.
C16_NodeIdIsMine ==
    UserCall =>
        /\ \A m \in SentOut : m.node_id = my_id
        /\ call.result = "Ack" => call.ack.node_id = my_id

\* The types each handler keeps, as the type space is partitioned.
Accepts(h, t) ==
    IF h = "Text" THEN t \in 32..63 ELSE t = TypeOf[h]

\* C19: a handler declines exactly the types that are not its own, and a
\* handler that declined has sent nothing; the pipeline stops at the first
\* handler that does not decline, which is the one handler of the list that
\* keeps the type.
C19_DeclineHasNoEffect ==
    /\ \A i \in DOMAIN call.trail :
          /\ (call.trail[i][2] = "NotMine") <=> ~Accepts(call.trail[i][1], call.msg.typ)
          /\ call.trail[i][2] = "NotMine" => ~call.trail[i][3]
          /\ i < Len(call.trail) => call.trail[i][2] = "NotMine"
    /\ (call.pipeline /\ call.by # "none") =>
          /\ call.trail[Len(call.trail)][1] = call.by
          /\ \A i \in DOMAIN handler_list :
                Accepts(handler_list[i], call.msg.typ) <=> handler_list[i] = call.by

C19_Witness ==
    /\ call.pipeline
    /\ call.by = "Text"
    /\ Len(call.trail) = 3
    /\ call.sent[IoQueue] # <<>>

\* C20: every message of a Business type (64..96) that goes through the
\* handler list of the message node is answered with an ACK.
C20_BusinessHandled ==
    (call.pipeline /\ call.msg.typ \in 64..95) => call.result = "Ack"

\* C17: the connection map holds a sender of a connection only if the first
\* message of the connection was an Auth message that passed validation, for
\* that user; a first message of another type, a failed validation or a
\* failed first read ends the handler of the connection.
C17_AuthBeforeSession ==
    \A c \in Connections :
        /\ \A u \in Users :
              c_map[u] = c =>
                  /\ first[c].read = "ok"
                  /\ first[c].typ = TypeAuth
                  /\ first[c].valid
                  /\ first[c].sender = u
        /\ (\/ first[c].read = "err"
            \/ first[c].read = "ok" /\ ~(first[c].typ = TypeAuth /\ first[c].valid))
               => task[c] = "done"

\* C18: once the handler task of a connection has ended, the connection map
\* holds no sender of that connection.
C18_SessionDestroyed ==
    \A c \in Connections : task[c] = "done" => \A u \in Users : c_map[u] # c

\* C21: a message of the loop whose processing fails is answered with an ACK
\* of type Error written back on the same connection.
C21_ErrorIsAnswered ==
    \A c \in Connections : answer[c].result = "err" => answer[c].wrote = "error_ack"

\* C24: a call of NodeRegister::run with a MessageNodeRegister message, made
\* while every entry of the client map accepts, puts on the queue of every
\* entry exactly one message of type MessageNodeRegister with the payload and
\* the sender of the original, puts nothing on any other queue, and returns an
\* ACK that carries this node's id.
C24_RegisterBroadcast ==
    [][(/\ call = NoCall
        /\ call'.by = "NodeRegister"
        /\ call'.msg.typ = TypeMessageNodeRegister
        /\ \A u \in Users : client_map[u] # "dead")
       => /\ \A u \in Users :
                call'.sent[ClientQueue(u)] =
                    IF client_map[u] = "live"
                    THEN <<[typ |-> TypeMessageNodeRegister,
                            sender |-> call'.msg.sender, receiver |-> 0,
                            node_id |-> 0, payload |-> call'.msg.payload]>>
                    ELSE <<>>
          /\ \A q \in Queues \ {ClientQueue(u) : u \in Users} : call'.sent[q] = <<>>
          /\ call'.result = "Ack"
          /\ call'.ack.node_id = my_id]_vars

C24_Witness ==
    /\ call.by = "NodeRegister"
    /\ call.result = "Ack"
    /\ call.msg.payload = "b"
    /\ \A u \in Users : Len(call.sent[ClientQueue(u)]) = 1

\* The first field in build's order that the builder has not set, or 0.
FirstUnset ==
    IF \A i \in DOMAIN Fields : builder[Fields[i]] # None THEN 0
    ELSE CHOOSE i \in DOMAIN Fields :
            /\ builder[Fields[i]] = None
            /\ \A j \in 1..(i - 1) : builder[Fields[j]] # None

\* The error texts that name field f: its identifier, or for remote_address
\* the word address.
Naming(f) ==
    {f \o " is required"} \cup
        (IF f = "remote_address" THEN {"address is required"} ELSE {})

\* C25: build succeeds exactly when all eight fields were set, and then returns
\* a config with the values set; otherwise it fails with an error that names
\* the first unset field in build's order.
C25_BuildNamesMissing ==
    built # NoBuilt =>
        /\ built.status = "ok" <=> FirstUnset = 0
        /\ built.status = "ok" => built.config = builder
        /\ built.status # "ok" =>
              /\ built.status = "err"
              /\ built.message \in Naming(Fields[FirstUnset])

\* The ring of the replicas: the position of address a in ascending order
\* (from 0), the address at position q, and the number of replicas.
RingPos(a) == Cardinality({b \in Replicas : b < a})
RingAt(q) == CHOOSE a \in Replicas : RingPos(a) = q
RingSize == Cardinality(Replicas)

\* The addresses replica r has dialed so far.
Dialed(r) == {sched[r].attempts[k].addr : k \in DOMAIN sched[r].attempts}

C23_OneDirection ==
    \A a, b \in Replicas :
        a # b => /\ ~(b \in Dialed(a) /\ a \in Dialed(b))
                 /\ ~(b \in sched[a].cluster_set /\ a \in sched[b].cluster_set)

C23_Witness ==
    /\ RingSize = 4
    /\ \A r \in Replicas :
          /\ sched[r].pc = "done"
          /\ Cardinality(sched[r].cluster_set) = 1

\* C29: once every replica has completed its run and no dial failed, every
\* two replicas are joined: one of them has the other in its cluster
\* connection set.
C29_FullMesh ==
    (/\ \A r \in Replicas : sched[r].pc = "done"
     /\ Failures(sched, Replicas) = 0)
    => \A a, b \in Replicas :
          a # b => (b \in sched[a].cluster_set \/ a \in sched[b].cluster_set)

\* C30: a dial that meets an error of client.run or of the server-info
\* exchange is the last dial of its run, and the run has failed; a run fails in
\* no other way; a run that completes has dialed all its successors, whatever
\* replies of another type or closed reply channels it met.
C30_ErrorEndsSkipGoesOn ==
    \A r \in Replicas :
        LET att == sched[r].attempts
        IN /\ \A k \in DOMAIN att :
                 att[k].outcome \in {"run_err", "info_err"} =>
                     (k = Len(att) /\ sched[r].pc = "failed")
           /\ sched[r].pc = "failed" =>
                 (att # <<>> /\ att[Len(att)].outcome \in {"run_err", "info_err"})
           /\ sched[r].pc = "done" => Len(att) = (RingSize - 1) \div 2

C30_Witness ==
    /\ RingSize = 5
    /\ \E r \in Replicas :
          /\ sched[r].pc = "done"
          /\ Len(sched[r].attempts) = 2
    /\ \E r \in Replicas :
          /\ sched[r].pc = "failed"
          /\ Len(sched[r].attempts) = 1
          /\ sched[r].attempts[1].outcome = "run_err"

\* The pump of stream s is in its loop and the stream is open.
Serving(s) == pc[s] \in {"select", "forward", "write"} /\ stream_ok[s]

OnWire(m) == \E s \in Streams : \E k \in DOMAIN wire_out[s] : wire_out[s][k] = m

\* C27: while a stream is open and its pump runs, a message that waits in the
\* outbound channel is eventually written to the wire, whether or not the
\* user takes anything from the inbound channel.
C27_OutboundServed ==
    \A m \in 1..MaxMsgs :
        ((\E k \in DOMAIN outq : outq[k] = m) /\ (\E s \in Streams : Serving(s)))
            ~> (OnWire(m) \/ ~(\E s \in Streams : Serving(s)))

\* The same holds once the case of a pump suspended on a full inbound channel
\* is set aside.
OutboundServedUnlessSuspended ==
    \A m \in 1..MaxMsgs :
        ((\E k \in DOMAIN outq : outq[k] = m) /\ (\E s \in Streams : Serving(s)))
            ~> \/ OnWire(m)
               \/ ~(\E s \in Streams : Serving(s))
               \/ \E s \in Streams : pc[s] = "forward" /\ Len(inq) >= InboundCapacity

\* C26: when the server closes the stream without a reply to the Auth
\* message, rw_streams eventually returns the error "auth failed".
C26_AuthFailureReturns ==
    (/\ auth = "waiting"
     /\ inq = <<>>
     /\ \A s \in Streams :
           pc[s] # "none" => (~stream_ok[s] /\ forwarded[s] = <<>> /\ pc[s] # "forward"))
        ~> (auth = "failed")

\* How often x occurs in the sequences of the streams, and in one sequence.
Occurs(q, x) == Cardinality({k \in DOMAIN q : q[k] = x})
OccursIn(f, x) == Occurs(f[1], x) + Occurs(f[2], x)

\* C28: with several streams open on one client, each message sent on the
\* outbound channel is dequeued by at most one pump, once, and written on
\* that pump's stream only, once; each frame a pump reads from its stream is
\* put on the inbound channel once, by that pump.
C28_SharedQueues ==
    /\ \A m \in 1..MaxMsgs :
          /\ OccursIn(dequeued, m) = Occurs(deq_all, m)
          /\ OccursIn(dequeued, m) + Occurs(outq, m) = (IF m <= prod.issued /\ prod.msg # m THEN 1 ELSE 0)
          /\ OccursIn(wire_out, m) <= 1
          /\ \A s \in Streams : Occurs(wire_out[s], m) <= Occurs(dequeued[s], m)
          /\ \A s \in Streams :
                (pc[s] = "write" /\ held[s] = m) =>
                    (Occurs(dequeued[s], m) = 1 /\ OccursIn(wire_out, m) = 0)
    /\ \A f \in 1..MaxFrames :
          /\ OccursIn(forwarded, f) <= 1
          /\ Occurs(inq, f) <= OccursIn(forwarded, f)
          /\ \A s \in Streams : Occurs(forwarded[s], f) <= Occurs(peer_wrote[s], f)
          /\ \A s \in Streams :
                (pc[s] = "forward" /\ held[s] = f) =>
                    (Occurs(peer_wrote[s], f) = 1 /\ OccursIn(forwarded, f) = 0)

C28_Witness ==
    /\ \A s \in Streams : wire_out[s] # <<>> /\ forwarded[s] # <<>>
    /\ Len(deq_all) = 3

\* The peers whose reply to replica r had type Auth.
AnsweredAuth(r) ==
    {sched[r].attempts[k].addr :
        k \in {j \in DOMAIN sched[r].attempts : sched[r].attempts[j].outcome = "ok"}}

\* C31: the cluster connection set of a replica holds exactly the addresses
\* of the peers that answered Auth, its cluster map exactly their ids, and a
\* handler task was spawned for exactly those peers: a reply of another type,
\* a closed reply channel or a connection error leaves all three unchanged.
C31_OnlyAfterAuth ==
    \A r \in Replicas :
        /\ sched[r].cluster_set = AnsweredAuth(r)
        /\ sched[r].cluster_map = {Id(a) : a \in AnsweredAuth(r)}
        /\ sched[r].spawned = AnsweredAuth(r)

C31_Witness ==
    \E r \in Replicas :
        /\ Len(sched[r].attempts) = 2
        /\ sched[r].attempts[1].outcome = "not_auth"
        /\ sched[r].attempts[2].outcome = "ok"
        /\ sched[r].cluster_set = {sched[r].attempts[2].addr}

\* The notification the latest call of NodeRegister or NodeUnregister sends.
Notification(c) ==
    IF c.by = "NodeRegister"
    THEN [typ |-> TypeMessageNodeRegister, sender |-> c.msg.sender, receiver |-> 0,
          node_id |-> 0, payload |-> c.msg.payload]
    ELSE c.msg

\* C32: when NodeRegister or NodeUnregister, iterating the client map, comes
\* to an entry whose queue is closed, the call returns the error with no ACK;
\* the entries before it in the iteration have the notification, once, and
\* the entries from it on have nothing.
C32_FirstFailureEndsBroadcast ==
    [][(/\ call = NoCall
        /\ call'.by \in {"NodeRegister", "NodeUnregister"}
        /\ call'.result # "NotMine"
        /\ \E k \in DOMAIN call'.order : client_map[call'.order[k]] = "dead")
       => LET ord == call'.order
              closed == {k \in DOMAIN ord : client_map[ord[k]] = "dead"}
              f == CHOOSE k \in closed : \A j \in closed : k <= j
          IN /\ call'.result = "Err"
             /\ call'.ack = NoAck
             /\ \A k \in DOMAIN ord :
                   call'.sent[ClientQueue(ord[k])] =
                       IF k < f THEN <<Notification(call')>> ELSE <<>>]_vars

C32_Witness ==
    /\ call.by = "NodeRegister"
    /\ call.result = "Err"
    /\ Len(call.order) = 2
    /\ Len(call.sent[ClientQueue(call.order[1])]) = 1
    /\ call.sent[ClientQueue(call.order[2])] = <<>>

\* What a call of NodeUnregister::run does with a MessageNodeUnregister
\* message: one unmodified copy to every entry whose key is not the sender,
\* nothing to the sender's entry or to any other queue, and Noop with no ACK.
UnregisterBroadcast ==
    /\ \A u \in Users :
          call'.sent[ClientQueue(u)] =
              IF u # call'.msg.sender /\ client_map[u] # "absent"
              THEN <<call'.msg>> ELSE <<>>
    /\ \A q \in Queues \ {ClientQueue(u) : u \in Users} : call'.sent[q] = <<>>
    /\ call'.result = "Noop"
    /\ call'.ack = NoAck

UnregisterCall ==
    /\ call = NoCall
    /\ call'.by = "NodeUnregister"
    /\ call'.msg.typ = TypeMessageNodeUnregister

RecoveredPublished ==
    \A k \in AllKeys :
        IF k \in JournaledKeys(append_dir)
        THEN /\ k \in DOMAIN seqnum_map
             /\ seqnum_map[k] = 1 + SetMax(JournaledValues(append_dir, k))
        ELSE k \notin DOMAIN seqnum_map

\* C34: no next request is served before recovery has finished: the service
\* runtimes are started only when load() has read the whole directory and the
\* shared map holds every recovered counter, and a request is served only by
\* started runtimes; while load() runs and when it has failed the shared map
\* is empty (nothing is published in part), and a process whose load() failed
\* takes no further step: it starts no runtime and serves nothing.
C34_ServeAfterRecovery ==
    /\ [][/\ (phase # "serving" /\ phase' = "serving") =>
               (phase = "loaded" /\ dir = {} /\ RecoveredPublished)
          /\ served' # served => (phase = "serving" /\ phase' = "serving")
          /\ phase # "load_failed"]_vars
    /\ [](phase \in {"loading", "load_failed"} => seqnum_map = EmptyMap)

\* A request has been served by runtimes that were started on a recovered
\* counter: this run began with a load() over a journaled segment.
C34_Witness ==
    /\ phase = "serving"
    /\ epoch >= 1
    /\ \E k \in Keys : base[k] >= 2 /\ returned[k] # <<>>

====
